---------------------------- MODULE Spec2Model ----------------------------
(***************************************************************************)
(* Session state synchronisation of the planning-poker tool.               *)
(*                                                                         *)
(* Three deployments of the Session Coordinator are modelled; Init picks   *)
(* one (variable mode) and the variables of the others keep their initial  *)
(* values:                                                                 *)
(*   "poll"       : PlanningPokerP2PApp over CrossBrowserMessaging         *)
(*                  (messages carried by localStorage 'storage' events)    *)
(*   "cloud"      : the simplified PlanningPokerFirebaseApp (no tasks)     *)
(*                  over FirebaseMessaging                                 *)
(*   "cloudTasks" : the PlanningPokerFirebaseApp with tasks                *)
(*                  (app-firebase.js) over FirebaseMessaging               *)
(*                                                                         *)
(* Every browser context (tab) is one element of Users; the creator of the *)
(* session is Creator, the other contexts join it.  A context enters a     *)
(* session at most once (its user id is freshly generated per entry).      *)
(* The browser is one without BroadcastChannel, so that broadcastMessage   *)
(* reaches the other contexts once, through the 'storage' event.           *)
(***************************************************************************)
EXTENDS Naturals, Sequences, FiniteSets, TLC

\* ------------------------------------------------------------------ bounds
MaxInbox == 2          \* 'storage' events waiting per receiving context
MaxTasks == 1          \* task ids that addTask hands out
MaxPendingSync == 1    \* host's scheduled (500 ms) state-sync timers
MaxCalls == 5          \* accepted user operations in one run
RoundCalls == 8        \* operations of the end-to-end round
MaxWrites == 2         \* write operations in one run of the write model
MaxShares == 3         \* operations of the fragment manager in one run
MaxVersion == 2        \* versions of a shared state
MaxStorageOps == 6     \* user operations in one run of the storage model
MaxSends == 3          \* messages written to the shared-store key in one run
MaxClock == 8          \* seconds the clock of the shared-store key runs
MaxTime == 27          \* seconds the clock of the presence model runs
MaxTicks == 1          \* runs of the presence interval
MaxDigits == 9         \* base-36 digits of a value of Math.random()

\* --------------------------------------------------------------- constants
Creator == "h"
Users == {"h", "p"}
Null == "null"                     \* JavaScript null / undefined
Modes == {"poll", "cloud", "cloudTasks"}
\* addTask: 'task-' + Date.now(), or the key push() returns
TaskId(n) == "task-" \o ToString(n)
TaskIds == {TaskId(n) : n \in 1..MaxTasks}
heartbeatPeriod == 3   \* setInterval(..., 3000), in seconds
timeout == 10          \* checkParticipantHealth: timeout = 10000, in seconds
presencePeriod == 30   \* setInterval(updatePresence, 30000), in seconds
maxURLLength == 2000   \* isStateTooLarge: maxURLLength = 2000
titleLimit == 50       \* createSimplifiedState: task.title.substring(0, 50)
pollPeriod == 2
cleanupDelay == 5        \* startPolling: setInterval(..., 2000), in seconds
IdLength == 6                      \* /^[A-Z0-9]{6}$/, and the loop bound
allowedVotes == {"1", "2", "3", "5", "8", "13", "21", "?", "coffee"}
\* values a caller may hand to vote(): two cards and one non-card
VoteInputs == {"5", "8", "100"}
StorageVotes == {"5", "8"}

VARIABLES
    mode,        \* the deployment, see above
    status,      \* per context: "idle" (never entered), "in", "left"
    app,         \* per context: the Coordinator's fields
    cbm,         \* per context: CrossBrowserMessaging fields
    inboxLS,     \* per context: 'storage' events not yet dispatched
    pendingSync, \* per context: setTimeout(sendStateSync, 500) not yet fired
    pendingReq,  \* per context: setTimeout(requestState, 1000) not yet fired
    fm,          \* per context: FirebaseMessaging fields
    db,          \* the session document sessions/{id} of the remote store
    dirty,       \* per context: an onValue event is due at its listener
    nextTaskId,  \* task ids already handed out
    calls,       \* accepted user operations so far
    budget,      \* accepted user operations the run allows
    entry,       \* the Coordinator whose entry into a session is followed
    co,          \* the Coordinator whose awaits are followed one by one
    hb,          \* the participant table of one transport, with its clock
    wr,          \* a session document and the last write operation on it
    pr,          \* one participant record of the store and the client it belongs to
    fr,          \* the Fragment transport of one context, the URL it shares and its Coordinator
    ls,          \* the stored session of the localStorage variant and the Coordinators that poll it
    tm,          \* the shared-store key of the session's messages and the cleanup timers of the pages
    lv           \* the transport and the Coordinator of a participant next to a peer that stalls, leaves and rejoins

\* what no operation of a running session changes
aux == <<budget, entry, co, hb, wr, pr, fr, ls, tm, lv>>

vars == <<mode, status, app, cbm, inboxLS, pendingSync, pendingReq, fm, db,
          dirty, nextTaskId, calls, aux>>

\* the variables of the running session
mainVars == <<mode, status, app, cbm, inboxLS, pendingSync, pendingReq, fm, db,
              dirty, nextTaskId, calls, budget, co, hb, wr, pr, fr, ls, tm, lv>>

pollVars == <<cbm, inboxLS, pendingSync, pendingReq>>
cloudVars == <<fm, db, dirty>>

\* ------------------------------------------------------------ Map helpers
EmptyMap == [x \in {} |-> Null]
MapSet(m, k, v) == [x \in (DOMAIN m) \cup {k} |-> IF x = k THEN v ELSE m[x]]
MapDelete(m, k) == [x \in (DOMAIN m) \ {k} |-> m[x]]

\* a call that returns before it changes or sends anything
Rejected == UNCHANGED vars

\* a call that goes through: one more accepted user operation
Accepted ==
    /\ calls < budget
    /\ calls' = calls + 1

\* --------------------------------------------- PlanningPokerP2PApp (poll)
\* constructor: the fields of a Coordinator outside any session
P2PAppInit ==
    [ currentUser    |-> Null,
      currentSession |-> Null,
      isHost         |-> FALSE,
      participants   |-> EmptyMap,
      tasks          |-> <<>>,
      currentTaskId  |-> Null,
      votes          |-> EmptyMap,
      votingEnabled  |-> FALSE,
      votesRevealed  |-> FALSE,
      connectionMode |-> "none" ]

CBMInit == [ isHost |-> FALSE, listening |-> FALSE, participants |-> {} ]

\* message handlers of the Coordinator: pure functions of its fields
handleUserLeft_keepRoster(a, userId) ==
    [a EXCEPT !.votes = MapDelete(@, userId)]

handleUserLeft(a, userId) ==
    [a EXCEPT !.participants = MapDelete(@, userId),
              !.votes        = MapDelete(@, userId)]

handleTaskAdded(a, task) == [a EXCEPT !.tasks = Append(@, task)]

handleTaskSelected(a, taskId) ==
    [a EXCEPT !.currentTaskId = taskId,
              !.votingEnabled = TRUE,
              !.votesRevealed = FALSE,
              !.votes         = EmptyMap]

handleVoteCast_otherKey(a, userId, v) ==
    [a EXCEPT !.votes = [x \in Users |-> v]]

handleVoteCast(a, userId, v) == [a EXCEPT !.votes = MapSet(@, userId, v)]

handleVotesRevealed(a) == [a EXCEPT !.votesRevealed = TRUE]

handleNextRound_keepTask(a) ==
    [a EXCEPT !.votingEnabled = FALSE,
              !.votesRevealed = FALSE,
              !.votes         = EmptyMap]

handleNextRound(a) ==
    [a EXCEPT !.votingEnabled = FALSE,
              !.votesRevealed = FALSE,
              !.votes         = EmptyMap,
              !.currentTaskId = Null]

handleStateSync_keepVotes(a, state) ==
    [a EXCEPT !.participants  = state.participants,
              !.tasks         = state.tasks,
              !.currentTaskId = state.currentTaskId,
              !.votingEnabled = state.votingEnabled,
              !.votesRevealed = state.votesRevealed]

\* the state object is always the one sendFullStateSync builds: every field
\* is present, so every field is replaced
handleStateSync(a, state) ==
    [a EXCEPT !.participants  = state.participants,
              !.tasks         = state.tasks,
              !.currentTaskId = state.currentTaskId,
              !.votes         = state.votes,
              !.votingEnabled = state.votingEnabled,
              !.votesRevealed = state.votesRevealed]

\* getSessionState: the state object of a state-sync message
getSessionState(a) ==
    [ participants  |-> a.participants,
      tasks         |-> a.tasks,
      currentTaskId |-> a.currentTaskId,
      votes         |-> a.votes,
      votingEnabled |-> a.votingEnabled,
      votesRevealed |-> a.votesRevealed,
      hostId        |-> a.currentUser ]

\* processMessage for the message types that change the Coordinator's fields
\* (user-joined and request-state stop in the transport's handleMessage)
processMessage(a, m) ==
    CASE m.type = "user-left"      -> handleUserLeft(a, m.userId)
      [] m.type = "task-added"     -> handleTaskAdded(a, m.task)
      [] m.type = "task-selected"  -> handleTaskSelected(a, m.value)
      [] m.type = "vote-cast"      -> handleVoteCast(a, m.userId, m.value)
      [] m.type = "votes-revealed" -> handleVotesRevealed(a)
      [] m.type = "next-round"     -> handleNextRound(a)
      [] m.type = "state-sync"     -> handleStateSync(a, m.state)
      [] OTHER                     -> a

\* a message: its type, the userId it carries (if any), and its content,
\* which is a string (user, taskId, vote, reason), a task or a state object
NoTask == [id |-> Null, createdBy |-> Null]
NoState == getSessionState(P2PAppInit)
Msg(type, userId, value) ==
    [type |-> type, userId |-> userId, value |-> value,
     task |-> NoTask, state |-> NoState]
TaskMsg(task) == [Msg("task-added", Null, Null) EXCEPT !.task = task]
StateMsg(state) == [Msg("state-sync", Null, Null) EXCEPT !.state = state]

\* the guard of vote(): voting is closed
votingClosed_ignoreRevealed(a) ==
    ~a.votingEnabled \/ a.currentTaskId = Null

votingClosed(a) ==
    ~a.votingEnabled \/ a.votesRevealed \/ a.currentTaskId = Null

\* ------------------------------------------- CrossBrowserMessaging (poll)
\* the contexts whose 'storage' listener a message written by c reaches
Receivers(c) == {d \in Users \ {c} : cbm[d].listening}

\* room for n more events at every receiver
CanSend(c, n) == \A d \in Receivers(c) : Len(inboxLS[d]) + n <= MaxInbox

\* broadcastMessage: setItem on localStorage raises one 'storage' event per
\* message in every other listening context; ms is the sequence of messages
\* c sends in one handler
Post(box, c, ms) ==
    [d \in Users |-> IF d \in Receivers(c) THEN box[d] \o ms ELSE box[d]]

\* handleMessage, first part: every message carrying a userId refreshes the
\* sender's entry of the participant table
Seen(t, c, m) ==
    IF m.userId # Null /\ m.userId # c
    THEN [t EXCEPT !.participants = @ \cup {m.userId}]
    ELSE t

InPoll(c) == mode = "poll" /\ status[c] = "in"

\* a handler of context c that leaves its fields a2, its transport t2, and
\* has sent the messages ms; ls0 is the inboxes once the handled event, if
\* any, is taken out
Effect(c, a2, t2, ms, ls0) ==
    /\ CanSend(c, Len(ms))
    /\ app' = [app EXCEPT ![c] = a2]
    /\ cbm' = [cbm EXCEPT ![c] = t2]
    /\ inboxLS' = Post(ls0, c, ms)

PollStep(c, a2, t2, ms) == Effect(c, a2, t2, ms, inboxLS)

\* startHeartbeat: the first heartbeat{userId} is sent at once and reaches
\* every listening context, whose handleMessage refreshes the sender's entry
HeartbeatSeen(t, c) ==
    [d \in Users |-> IF d \in Receivers(c)
                     THEN [t[d] EXCEPT !.participants = @ \cup {c}]
                     ELSE t[d]]

\* ------------------------------------------------ user operations (poll)
createSession(c) ==
    /\ mode = "poll" /\ c = Creator /\ status[c] = "idle"
    /\ status' = [status EXCEPT ![c] = "in"]
    /\ PollStep(c,
         [app[c] EXCEPT !.currentUser    = c,
                        !.isHost         = TRUE,
                        !.participants   = MapSet(@, c, [id |-> c, isHost |-> TRUE]),
                        !.currentSession = "S",
                        !.connectionMode = "cross-browser"],
         [isHost |-> TRUE, listening |-> TRUE, participants |-> {c}],
         <<Msg("user-joined", Null, c)>>)
    /\ Accepted
    /\ UNCHANGED <<mode, aux, pendingSync, pendingReq, cloudVars, nextTaskId>>

joinSession(c) ==
    /\ mode = "poll" /\ c # Creator /\ status[c] = "idle"
    /\ status[Creator] # "idle"       \* the session id comes from its creator
    /\ status' = [status EXCEPT ![c] = "in"]
    /\ LET ms == <<Msg("user-joined", c, Null), Msg("user-joined", Null, c)>>
           a2 == [app[c] EXCEPT
                    !.currentUser    = c,
                    !.isHost         = FALSE,
                    !.currentSession = "S",
                    !.connectionMode = "cross-browser",
                    !.participants   = MapSet(@, c, [id |-> c, isHost |-> FALSE])]
       IN /\ CanSend(c, Len(ms))
          /\ app' = [app EXCEPT ![c] = a2]
          /\ cbm' = [HeartbeatSeen(cbm, c) EXCEPT
                       ![c] = [isHost |-> FALSE, listening |-> TRUE,
                               participants |-> {}]]
          /\ inboxLS' = Post(inboxLS, c, ms)
    /\ pendingReq' = [pendingReq EXCEPT ![c] = TRUE]
    /\ Accepted
    /\ UNCHANGED <<mode, aux, pendingSync, cloudVars, nextTaskId>>

\* leaveSession: user-left from the Coordinator, user-left{reason} from
\* disconnect(), then the listeners are removed and the fields reset; the
\* two setTimeout callbacks are not cancelled
leaveSession(c) ==
    /\ InPoll(c)
    /\ LET ms == <<Msg("user-left", c, Null), Msg("user-left", c, "disconnect")>>
       IN /\ CanSend(c, Len(ms))
          /\ inboxLS' = [Post(inboxLS, c, ms) EXCEPT ![c] = <<>>]
    /\ app' = [app EXCEPT ![c] = P2PAppInit]
    /\ cbm' = [cbm EXCEPT ![c].listening = FALSE, ![c].participants = {}]
    /\ status' = [status EXCEPT ![c] = "left"]
    /\ Accepted
    /\ UNCHANGED <<mode, aux, pendingSync, pendingReq, cloudVars, nextTaskId>>

addTask(c) ==
    /\ InPoll(c) /\ nextTaskId <= MaxTasks
    /\ LET task == [id |-> TaskId(nextTaskId), createdBy |-> c]
       IN PollStep(c, [app[c] EXCEPT !.tasks = Append(@, task)], cbm[c],
                   <<TaskMsg(task)>>)
    /\ nextTaskId' = nextTaskId + 1
    /\ Accepted
    /\ UNCHANGED <<mode, aux, status, pendingSync, pendingReq, cloudVars>>

selectTask(c, taskId) ==
    /\ InPoll(c)
    /\ IF ~app[c].isHost
       THEN Rejected
       ELSE /\ PollStep(c, handleTaskSelected(app[c], taskId), cbm[c],
                        <<Msg("task-selected", Null, taskId)>>)
            /\ Accepted
            /\ UNCHANGED <<mode, aux, status, pendingSync, pendingReq, cloudVars,
                           nextTaskId>>

vote(c, value) ==
    /\ InPoll(c)
    /\ IF votingClosed(app[c])
       THEN Rejected
       ELSE /\ PollStep(c, handleVoteCast(app[c], c, value), cbm[c],
                        <<Msg("vote-cast", c, value)>>)
            /\ Accepted
            /\ UNCHANGED <<mode, aux, status, pendingSync, pendingReq, cloudVars,
                           nextTaskId>>

revealVotes_unguarded(c) ==
    /\ InPoll(c)
    /\ PollStep(c, handleVotesRevealed(app[c]), cbm[c],
                <<Msg("votes-revealed", Null, Null)>>)
    /\ Accepted
    /\ UNCHANGED <<mode, aux, status, pendingSync, pendingReq, cloudVars, nextTaskId>>

revealVotes(c) ==
    /\ InPoll(c)
    /\ IF ~app[c].isHost
       THEN Rejected
       ELSE /\ PollStep(c, handleVotesRevealed(app[c]), cbm[c],
                        <<Msg("votes-revealed", Null, Null)>>)
            /\ Accepted
            /\ UNCHANGED <<mode, aux, status, pendingSync, pendingReq, cloudVars,
                           nextTaskId>>

nextRound(c) ==
    /\ InPoll(c)
    /\ IF ~app[c].isHost
       THEN Rejected
       ELSE /\ PollStep(c, handleNextRound(app[c]), cbm[c],
                        <<Msg("next-round", Null, Null)>>)
            /\ Accepted
            /\ UNCHANGED <<mode, aux, status, pendingSync, pendingReq, cloudVars,
                           nextTaskId>>

\* ---------------------------------------------------- callbacks (poll)
\* sendFullStateSync: only a host sends
sendFullStateSync(a) ==
    IF a.isHost THEN <<StateMsg(getSessionState(a))>> ELSE <<>>

\* handleMessage of CrossBrowserMessaging for the message m taken from the
\* inbox of c; ls0 is the inboxes without it
handleMessage(c, m, ls0) ==
    LET t2 == Seen(cbm[c], c, m) IN
    CASE m.type = "user-joined" ->
           /\ IF cbm[c].isHost /\ m.userId # c
              THEN /\ pendingSync[c] < MaxPendingSync
                   /\ pendingSync' = [pendingSync EXCEPT ![c] = @ + 1]
              ELSE UNCHANGED pendingSync
           /\ Effect(c, app[c], t2, <<>>, ls0)
      [] m.type = "request-state" ->
           /\ Effect(c, app[c], t2,
                     IF cbm[c].isHost THEN sendFullStateSync(app[c]) ELSE <<>>,
                     ls0)
           /\ UNCHANGED pendingSync
      [] OTHER ->
           /\ Effect(c, processMessage(app[c], m), t2, <<>>, ls0)
           /\ UNCHANGED pendingSync

\* the 'storage' listener
DeliverLS(c) ==
    /\ InPoll(c) /\ inboxLS[c] # <<>>
    /\ handleMessage(c, Head(inboxLS[c]), [inboxLS EXCEPT ![c] = Tail(@)])
    /\ UNCHANGED <<mode, aux, status, pendingReq, cloudVars, nextTaskId, calls>>

\* the host's setTimeout(() => sendStateSync(userId), 500) fires:
\* sendStateSync -> onMessage(request-state-sync) -> sendFullStateSync
FireSync(c) ==
    /\ mode = "poll" /\ pendingSync[c] > 0
    /\ pendingSync' = [pendingSync EXCEPT ![c] = @ - 1]
    /\ PollStep(c, app[c], cbm[c],
                IF cbm[c].isHost THEN sendFullStateSync(app[c]) ELSE <<>>)
    /\ UNCHANGED <<mode, aux, status, pendingReq, cloudVars, nextTaskId, calls>>

\* the joiner's setTimeout(() => requestState(), 1000) fires; it also fires
\* after leaveSession, when setItem still reaches the other contexts
FireReq(c) ==
    /\ mode = "poll" /\ pendingReq[c]
    /\ pendingReq' = [pendingReq EXCEPT ![c] = FALSE]
    /\ LET ms == IF cbm[c].isHost THEN <<>>
                 ELSE <<Msg("request-state", c, Null)>>
       IN /\ CanSend(c, Len(ms))
          /\ inboxLS' = Post(inboxLS, c, ms)
    /\ UNCHANGED <<mode, aux, status, app, cbm, pendingSync, cloudVars, nextTaskId,
                   calls>>

\* ------------------------------------------------ FirebaseMessaging (cloud)
FMInit == [ userId |-> Null, isHost |-> FALSE, listening |-> FALSE ]

\* the session document before createSession has written it
DbInit ==
    [ exists       |-> FALSE,
      info         |-> [ hostId        |-> Null,
                         currentTaskId |-> Null,
                         votingEnabled |-> TRUE,
                         votesRevealed |-> FALSE ],
      participants |-> EmptyMap,
      tasks        |-> <<>>,
      votes        |-> EmptyMap ]

FM_createSession_noHost(d, c) ==
    [d EXCEPT !.exists       = TRUE,
              !.info         = [ hostId        |-> c,
                                 currentTaskId |-> Null,
                                 votingEnabled |-> TRUE,
                                 votesRevealed |-> FALSE ],
              !.participants = MapSet(@, c, [isHost |-> FALSE, connected |-> TRUE])]

\* createSession of the transport: set(info), set(participants/{uid})
FM_createSession(d, c) ==
    [d EXCEPT !.exists       = TRUE,
              !.info         = [ hostId        |-> c,
                                 currentTaskId |-> Null,
                                 votingEnabled |-> TRUE,
                                 votesRevealed |-> FALSE ],
              !.participants = MapSet(@, c, [isHost |-> TRUE, connected |-> TRUE])]

\* joinSession of the transport: set(participants/{uid})
FM_joinSession(d, c) ==
    [d EXCEPT !.participants = MapSet(@, c, [isHost |-> FALSE, connected |-> TRUE])]

\* addTask of the transport: set(push(tasksRef), taskData)
FM_addTask(d, c, id) ==
    [d EXCEPT !.tasks = Append(@, [id |-> id, createdBy |-> c])]

\* selectTask of the transport: update(sessionRef, {...})
FM_selectTask(d, taskId) ==
    [d EXCEPT !.info.currentTaskId = taskId,
              !.info.votingEnabled = TRUE,
              !.info.votesRevealed = FALSE,
              !.votes              = EmptyMap]

\* castVote of the transport: set(votes/{uid}, {value})
castVote(d, c, v) == [d EXCEPT !.votes = MapSet(@, c, v)]

\* revealVotes of the transport: set(info/votesRevealed, true)
FM_revealVotes(d) == [d EXCEPT !.info.votesRevealed = TRUE]

\* nextRound of the transport: update(sessionRef, {...})
FM_nextRound(d) ==
    [d EXCEPT !.info.currentTaskId = Null,
              !.info.votingEnabled = TRUE,
              !.info.votesRevealed = FALSE,
              !.votes              = EmptyMap]

\* disconnect of the transport: set(participants/{uid}/connected, false)
disconnect(d, c) ==
    [d EXCEPT !.participants[c].connected = FALSE]

\* the app state the transport hands to onStateChange for a snapshot
convertFirebaseToAppState(d) ==
    [ participants  |-> [id \in DOMAIN d.participants |->
                           [ id        |-> id,
                             isHost    |-> d.participants[id].isHost,
                             connected |-> d.participants[id].connected ]],
      tasks         |-> <<>>,
      currentTaskId |-> Null,
      votes         |-> d.votes,
      votingEnabled |-> d.info.votingEnabled,
      votesRevealed |-> d.info.votesRevealed,
      hostId        |-> d.info.hostId ]

\* ------------------------------------- PlanningPokerFirebaseApp (cloud)
\* constructor of the simplified Coordinator: voting is always enabled
SimplifiedAppInit == [P2PAppInit EXCEPT !.votingEnabled = TRUE]

\* constructor of the Coordinator with tasks
FirebaseAppInit == P2PAppInit

\* handleStateChange of the simplified Coordinator; the current user is put
\* back into the roster when the snapshot lacks it
handleStateChangeSimplified(a, state) ==
    LET ps == IF a.currentUser # Null /\ a.currentUser \notin DOMAIN state.participants
              THEN MapSet(state.participants, a.currentUser,
                          [ id |-> a.currentUser, isHost |-> a.isHost,
                            connected |-> TRUE ])
              ELSE state.participants
    IN [a EXCEPT !.participants  = ps,
                 !.votes         = state.votes,
                 !.votingEnabled = state.votingEnabled,
                 !.votesRevealed = state.votesRevealed]

\* handleStateChange of the Coordinator with tasks
handleStateChange(a, state) ==
    [a EXCEPT !.participants  = state.participants,
              !.tasks         = state.tasks,
              !.currentTaskId = state.currentTaskId,
              !.votes         = state.votes,
              !.votingEnabled = state.votingEnabled,
              !.votesRevealed = state.votesRevealed]

InCloud(c) == mode \in {"cloud", "cloudTasks"} /\ status[c] = "in"

\* the onValue listener of setupRealtimeListeners applied to the document d
onStateChange(a, d) ==
    IF mode = "cloud"
    THEN handleStateChangeSimplified(a, convertFirebaseToAppState(d))
    ELSE handleStateChange(a, convertFirebaseToAppState(d))

\* a write that leaves the document as d2: every subscribed listener, the
\* writer's own included, is due an event; when the event runs it carries
\* the value the document has by then
Write(d2) ==
    /\ db' = d2
    /\ dirty' = [x \in Users |-> IF fm[x].listening THEN TRUE ELSE dirty[x]]
    /\ UNCHANGED <<app, fm>>

\* createSession of both Coordinators: initializeAsHost writes the document
\* and only then subscribes, so the first snapshot is still to come
createSessionFB(c) ==
    /\ mode \in {"cloud", "cloudTasks"} /\ c = Creator /\ status[c] = "idle"
    /\ status' = [status EXCEPT ![c] = "in"]
    /\ db' = FM_createSession(db, c)
    /\ fm' = [fm EXCEPT ![c] = [userId |-> c, isHost |-> TRUE, listening |-> TRUE]]
    /\ dirty' = [dirty EXCEPT ![c] = TRUE]
    /\ app' = [app EXCEPT ![c] = [@ EXCEPT !.currentUser    = c,
                                           !.isHost         = TRUE,
                                           !.currentSession = "S"]]
    /\ Accepted
    /\ UNCHANGED <<mode, aux, pollVars, nextTaskId>>

\* joinSession of both Coordinators: initializeAsParticipant finds the info
\* node, writes the participant record and subscribes
joinSessionFB(c) ==
    /\ mode \in {"cloud", "cloudTasks"} /\ c # Creator /\ status[c] = "idle"
    /\ db.exists
    /\ status' = [status EXCEPT ![c] = "in"]
    /\ db' = FM_joinSession(db, c)
    /\ fm' = [fm EXCEPT ![c] = [userId |-> c, isHost |-> FALSE, listening |-> TRUE]]
    /\ dirty' = [x \in Users |-> IF x = c \/ fm[x].listening THEN TRUE ELSE dirty[x]]
    /\ app' = [app EXCEPT ![c] = [@ EXCEPT !.currentUser    = c,
                                           !.isHost         = FALSE,
                                           !.currentSession = "S"]]
    /\ Accepted
    /\ UNCHANGED <<mode, aux, pollVars, nextTaskId>>

\* leaveSession of both Coordinators: disconnect(), then every field is reset
leaveSessionFB(c) ==
    /\ InCloud(c)
    /\ status' = [status EXCEPT ![c] = "left"]
    /\ db' = disconnect(db, c)
    /\ fm' = [fm EXCEPT ![c] = FMInit]
    /\ dirty' = [x \in Users |-> IF x = c THEN FALSE
                                 ELSE IF fm[x].listening THEN TRUE ELSE dirty[x]]
    /\ app' = [app EXCEPT ![c] = P2PAppInit]
    /\ Accepted
    /\ UNCHANGED <<mode, aux, pollVars, nextTaskId>>

\* addTask of the Coordinator with tasks; the transport returns null for a
\* client that is not the host
addTaskFB(c) ==
    /\ InCloud(c) /\ mode = "cloudTasks" /\ nextTaskId <= MaxTasks
    /\ IF ~fm[c].isHost
       THEN Rejected
       ELSE /\ Write(FM_addTask(db, c, TaskId(nextTaskId)))
            /\ nextTaskId' = nextTaskId + 1
            /\ Accepted
            /\ UNCHANGED <<mode, aux, status, pollVars>>

\* selectTask of the Coordinator with tasks
selectTaskFB(c, taskId) ==
    /\ InCloud(c) /\ mode = "cloudTasks"
    /\ IF ~app[c].isHost \/ ~fm[c].isHost
       THEN Rejected
       ELSE /\ Write(FM_selectTask(db, taskId))
            /\ Accepted
            /\ UNCHANGED <<mode, aux, status, pollVars, nextTaskId>>

\* vote of the Coordinator with tasks; castVote throws for a value that is
\* not a card and the Coordinator catches it
voteFB(c, value) ==
    /\ InCloud(c) /\ mode = "cloudTasks"
    /\ IF votingClosed(app[c]) \/ value \notin allowedVotes
       THEN Rejected
       ELSE /\ Write(castVote(db, c, value))
            /\ Accepted
            /\ UNCHANGED <<mode, aux, status, pollVars, nextTaskId>>

\* vote of the simplified Coordinator
voteSimplified(c, value) ==
    /\ InCloud(c) /\ mode = "cloud"
    /\ IF app[c].votesRevealed \/ value \notin allowedVotes
       THEN Rejected
       ELSE /\ Write(castVote(db, c, value))
            /\ Accepted
            /\ UNCHANGED <<mode, aux, status, pollVars, nextTaskId>>

\* revealVotes of both Coordinators
revealVotesFB(c) ==
    /\ InCloud(c)
    /\ IF ~app[c].isHost \/ ~fm[c].isHost
       THEN Rejected
       ELSE /\ Write(FM_revealVotes(db))
            /\ Accepted
            /\ UNCHANGED <<mode, aux, status, pollVars, nextTaskId>>

\* nextRound of both Coordinators
nextRoundFB(c) ==
    /\ InCloud(c)
    /\ IF ~app[c].isHost \/ ~fm[c].isHost
       THEN Rejected
       ELSE /\ Write(FM_nextRound(db))
            /\ Accepted
            /\ UNCHANGED <<mode, aux, status, pollVars, nextTaskId>>

\* the onValue listener runs with the current value of the document
onValue(c) ==
    /\ InCloud(c) /\ fm[c].listening /\ dirty[c]
    /\ dirty' = [dirty EXCEPT ![c] = FALSE]
    /\ app' = [app EXCEPT ![c] = onStateChange(@, db)]
    /\ UNCHANGED <<mode, aux, status, pollVars, fm, db, nextTaskId, calls>>

\* ------------------------------------------------- entering a session
\* The entry of one Coordinator into a session, with the session id and the
\* initialisation of the transport in detail.  Four Coordinators are
\* covered: "p2p" (PlanningPokerP2PApp), "legacy" (PlanningPokerApp, which
\* keeps the session in localStorage), "firebase" (PlanningPokerFirebaseApp
\* with tasks) and "simplified" (PlanningPokerFirebaseApp without tasks),
\* the last two over FirebaseMessaging.  A string is a sequence of
\* characters.
Variants == {"p2p", "legacy", "firebase", "simplified"}

Lower == <<"a", "b", "c", "d", "e", "f", "g", "h", "i", "j", "k", "l", "m",
           "n", "o", "p", "q", "r", "s", "t", "u", "v", "w", "x", "y", "z">>
Upper == <<"A", "B", "C", "D", "E", "F", "G", "H", "I", "J", "K", "L", "M",
           "N", "O", "P", "Q", "R", "S", "T", "U", "V", "W", "X", "Y", "Z">>
Digits == <<"0", "1", "2", "3", "4", "5", "6", "7", "8", "9">>
Range(s) == {s[i] : i \in DOMAIN s}
Min(a, b) == IF a < b THEN a ELSE b

\* String.prototype.toUpperCase
toUpperCase(s) ==
    [i \in DOMAIN s |->
        IF \E j \in DOMAIN Lower : Lower[j] = s[i]
        THEN Upper[CHOOSE j \in DOMAIN Lower : Lower[j] = s[i]]
        ELSE s[i]]

\* s.substring(2, 8): the characters at the (0-based) indices 2 .. 7
substring_2_8(s) == SubSeq(s, 3, Min(8, Len(s)))

\* s.substr(2, 8): 8 characters from the (0-based) index 2 on
substr_2_8(s) == SubSeq(s, 3, Min(10, Len(s)))

\* Math.random().toString(36) for the value whose digits to the base 36,
\* after the point, are r (none for the value 0)
toString36(r) == IF r = <<>> THEN <<"0">> ELSE <<"0", ".">> \o r

\* the digit sequences Math.random() is taken from: up to MaxDigits digits
\* out of RandomDigits
RandomDigits == {"4", "k"}
RandomFractions == UNION {[1..n -> RandomDigits] : n \in 0..MaxDigits}

\* the indices Math.floor(Math.random() * chars.length) is taken from
RandomIndexes == {1, 26, 27, 36}
RandomPicks == [1..IdLength -> RandomIndexes]

\* generateSessionId of PlanningPokerP2PApp and of PlanningPokerFirebaseApp
\* with tasks
generateSessionId(r) == toUpperCase(substring_2_8(toString36(r)))

\* generateSessionId of PlanningPokerApp
generateSessionIdLegacy(r) == toUpperCase(substr_2_8(toString36(r)))

\* generateSessionId of the simplified PlanningPokerFirebaseApp: six times
\* chars.charAt(index) out of 'A..Z0..9'
generateSessionIdSimplified(k) ==
    [i \in 1..IdLength |-> (Upper \o Digits)[k[i]]]

\* /^[A-Z0-9]{6}$/.test(sessionId)
validSessionId(s) ==
    /\ Len(s) = IdLength
    /\ \A i \in DOMAIN s : s[i] \in Range(Upper) \cup Range(Digits)

\* what a user types into the session id field (trimmed, without '#')
SessionInputs ==
    { <<>>,
      <<"A", "B", "C", "1", "2", "3">>,
      <<"a", "b", "c", "1", "2", "3">>,
      <<"A", "B", "-", "1", "2", "3">>,
      <<"A", "B", "C", "1", "2">>,
      <<"A", "B", "C", "1", "2", "3", "4">> }

NoSession == [set |-> FALSE, id |-> <<>>]

\* a Coordinator that has been constructed and has entered nothing
EntryStart(v, exists, auth) ==
    [ variant        |-> v,
      sessionExists  |-> exists,   \* a host has created the session typed in
      authOk         |-> auth,     \* signInAnonymously succeeds
      op             |-> "none",   \* the operation that has run
      arg            |-> <<>>,     \* the session id it was given
      currentUser    |-> Null,
      currentSession |-> NoSession,
      isHost         |-> FALSE,
      connectionMode |-> "none",
      transport      |-> "none",   \* the transport object the Coordinator holds
      tried          |-> <<>>,     \* the transports it has tried, in order
      active         |-> {},       \* the transports that listen or subscribe
      announced      |-> FALSE,    \* a participant record or user-joined is out
      alert          |-> Null ]    \* the failure shown to the user

NoEntry == EntryStart("p2p", FALSE, FALSE)

\* initializeAsHost, initializeAsParticipant of CrossBrowserMessaging
CBM_initializeAsHost == TRUE
CBM_initializeAsParticipant == TRUE

\* initializeAsHost of FirebaseMessaging: how it ends
FM_initializeAsHost(e, id) ==
    IF ~validSessionId(id) THEN "format"
    ELSE IF ~e.authOk THEN "auth"
    ELSE "ok"

\* initializeAsParticipant of FirebaseMessaging: how it ends
FM_initializeAsParticipant(e, id) ==
    IF ~validSessionId(id) THEN "format"
    ELSE IF ~e.authOk THEN "auth"
    ELSE IF ~e.sessionExists THEN "notfound"
    ELSE "ok"

\* handleAuthError of the simplified Coordinator: the message it shows
handleAuthError(outcome) ==
    IF outcome = "notfound"
    THEN "Session not found. Please check the session ID."
    ELSE "Authentication failed. Please try again."

Entered(e, op, arg) == [e EXCEPT !.op = op, !.arg = arg]

createSession_p2p(r) ==
    /\ entry.variant = "p2p" /\ entry.op = "none"
    /\ LET id == generateSessionId(r)
           e1 == [Entered(entry, "create", <<>>) EXCEPT
                    !.currentUser    = "u",
                    !.isHost         = TRUE,
                    !.currentSession = [set |-> TRUE, id |-> id],
                    !.transport      = "CrossBrowserMessaging",
                    !.tried          = <<"polling">>]
       IN entry' = IF CBM_initializeAsHost
                   THEN [e1 EXCEPT !.connectionMode = "cross-browser",
                                   !.active         = {"polling"},
                                   !.announced      = TRUE]
                   ELSE [e1 EXCEPT !.connectionMode = "fragment",
                                   !.tried          = <<"polling", "fragment">>,
                                   !.active         = {"fragment"}]
    /\ UNCHANGED mainVars

createSession_legacy(r) ==
    /\ entry.variant = "legacy" /\ entry.op = "none"
    /\ entry' = [Entered(entry, "create", <<>>) EXCEPT
                   !.currentUser    = "u",
                   !.isHost         = TRUE,
                   !.currentSession = [set |-> TRUE,
                                       id  |-> generateSessionIdLegacy(r)],
                   !.transport      = "localStorage",
                   !.tried          = <<"polling">>,
                   !.active         = {"polling"},
                   !.announced      = TRUE]
    /\ UNCHANGED mainVars

createSession_firebase(r) ==
    /\ entry.variant = "firebase" /\ entry.op = "none"
    /\ LET id == generateSessionId(r)
           e1 == [Entered(entry, "create", <<>>) EXCEPT
                    !.currentUser    = "u",
                    !.isHost         = TRUE,
                    !.currentSession = [set |-> TRUE, id |-> id],
                    !.transport      = "FirebaseMessaging",
                    !.tried          = <<"cloud">>]
       IN entry' = IF FM_initializeAsHost(entry, id) = "ok"
                   THEN [e1 EXCEPT !.active = {"cloud"}, !.announced = TRUE]
                   ELSE [e1 EXCEPT !.alert =
                            "Failed to create session. Please try again."]
    /\ UNCHANGED mainVars

createSession_simplified(k) ==
    /\ entry.variant = "simplified" /\ entry.op = "none"
    /\ LET id == generateSessionIdSimplified(k)
           e1 == [Entered(entry, "create", <<>>) EXCEPT
                    !.isHost         = TRUE,
                    !.currentSession = [set |-> TRUE, id |-> id],
                    !.transport      = "FirebaseMessaging",
                    !.tried          = <<"cloud">>]
           outcome == FM_initializeAsHost(entry, id)
       IN entry' = IF outcome = "ok"
                   THEN [e1 EXCEPT !.currentUser = "u",
                                   !.active      = {"cloud"},
                                   !.announced   = TRUE]
                   ELSE [e1 EXCEPT !.alert = handleAuthError(outcome)]
    /\ UNCHANGED mainVars

joinSession_p2p(s) ==
    /\ entry.variant = "p2p" /\ entry.op = "none"
    /\ LET e0 == Entered(entry, "join", s)
           e1 == [e0 EXCEPT
                    !.currentUser    = "u",
                    !.isHost         = FALSE,
                    !.currentSession = [set |-> TRUE, id |-> s],
                    !.transport      = "CrossBrowserMessaging",
                    !.tried          = <<"polling">>]
       IN entry' =
            IF s = <<>>
            THEN [e0 EXCEPT !.alert = "Please enter a valid session ID or URL"]
            ELSE IF CBM_initializeAsParticipant
            THEN [e1 EXCEPT !.connectionMode = "cross-browser",
                            !.active         = {"polling"},
                            !.announced      = TRUE]
            ELSE [e1 EXCEPT !.alert =
                     "Could not join session. Please check the session ID or URL."]
    /\ UNCHANGED mainVars

joinSession_legacy(s) ==
    /\ entry.variant = "legacy" /\ entry.op = "none"
    /\ LET e0 == Entered(entry, "join", s)
       IN entry' =
            IF s = <<>>
            THEN [e0 EXCEPT !.alert = "Please enter your name and session ID"]
            ELSE IF ~entry.sessionExists
            THEN [e0 EXCEPT !.tried = <<"polling">>,
                            !.alert = "Session not found. Please check the session ID."]
            ELSE [e0 EXCEPT !.currentUser    = "u",
                            !.isHost         = FALSE,
                            !.currentSession = [set |-> TRUE, id |-> s],
                            !.transport      = "localStorage",
                            !.tried          = <<"polling">>,
                            !.active         = {"polling"},
                            !.announced      = TRUE]
    /\ UNCHANGED mainVars

joinSession_firebase(s) ==
    /\ entry.variant = "firebase" /\ entry.op = "none"
    /\ LET e0 == Entered(entry, "join", s)
           e1 == [e0 EXCEPT
                    !.currentUser    = "u",
                    !.isHost         = FALSE,
                    !.currentSession = [set |-> TRUE, id |-> s],
                    !.transport      = "FirebaseMessaging",
                    !.tried          = <<"cloud">>]
       IN entry' =
            IF s = <<>>
            THEN [e0 EXCEPT !.alert = "Please enter a session ID"]
            ELSE IF FM_initializeAsParticipant(entry, s) = "ok"
            THEN [e1 EXCEPT !.active = {"cloud"}, !.announced = TRUE]
            ELSE [e1 EXCEPT !.alert =
                     "Failed to join session. Please check the session ID and try again."]
    /\ UNCHANGED mainVars

joinSession_simplified(s) ==
    /\ entry.variant = "simplified" /\ entry.op = "none"
    /\ LET e0 == Entered(entry, "join", s)
           e1 == [e0 EXCEPT
                    !.isHost         = FALSE,
                    !.currentSession = [set |-> TRUE, id |-> s],
                    !.transport      = "FirebaseMessaging",
                    !.tried          = <<"cloud">>]
           outcome == FM_initializeAsParticipant(entry, s)
       IN entry' =
            IF s = <<>>
            THEN [e0 EXCEPT !.alert = "Please enter a session ID"]
            ELSE IF outcome = "ok"
            THEN [e1 EXCEPT !.currentUser = "u",
                            !.active      = {"cloud"},
                            !.announced   = TRUE]
            ELSE [e1 EXCEPT !.alert = handleAuthError(outcome)]
    /\ UNCHANGED mainVars

\* ------------------------------------ entering a session, await by await
\* createSession / joinSession of the simplified PlanningPokerFirebaseApp
\* over FirebaseMessaging with every await as a step of its own, next to
\* leaveSession, which awaits too.  co holds one Coordinator (user "u"),
\* the FirebaseMessaging object its call has constructed, the remote calls
\* that are outstanding, and the documents sessions/S and sessions/null.
\* Remote calls on the database connection complete in the order they
\* were issued.

\* the path `sessions/${this.sessionId}` and the key `${this.userId}` as
\* the template literals render them
SPath(t) == IF t.sessionId THEN "S" ELSE Null
UKey(t) == IF t.userId THEN "u" ELSE Null

\* constructor of the simplified Coordinator
CoAppInit ==
    [ currentUser       |-> Null,
      currentSession    |-> FALSE,
      isHost            |-> FALSE,
      firebaseMessaging |-> FALSE,
      participants      |-> {},
      votingEnabled     |-> TRUE,
      view              |-> "session",
      alert             |-> Null ]

\* constructor of FirebaseMessaging
CoFMInit ==
    [ sessionId        |-> FALSE,
      userId           |-> FALSE,
      isHost           |-> FALSE,
      sessionRef       |-> "none",
      listeners        |-> FALSE,
      presenceInterval |-> FALSE,
      onDisconnect     |-> FALSE ]

NoDoc == [info |-> FALSE, participants |-> EmptyMap]

\* the document another host has created
HostedDoc == [info |-> TRUE, participants |-> MapSet(EmptyMap, "h", TRUE)]

CoStart(signedIn, exists) ==
    [ op       |-> "none",
      pc       |-> "none",
      lpc      |-> "none",
      raced    |-> FALSE,
      signedIn |-> signedIn,
      app      |-> CoAppInit,
      fm       |-> CoFMInit,
      q        |-> <<>>,
      db       |-> [p \in {"S", Null} |->
                      IF p = "S" /\ exists THEN HostedDoc ELSE NoDoc],
      dirty    |-> FALSE,
      issued   |-> 0,
      ticks    |-> 0 ]

NoCo == CoStart(FALSE, FALSE)

\* snapshot.exists()
Exists(doc) == doc.info \/ DOMAIN doc.participants # {}

\* a remote call: who awaits it, what it is, and the path it was built for
Call(by, kind, path, key) == [by |-> by, kind |-> kind, path |-> path, key |-> key]

\* the calls createSession / joinSession is awaiting
Awaiting(c) == c.pc \in {"auth", "get", "setInfo", "setPart"}

\* the catch block of createSession / joinSession: handleAuthError
Thrown(c, message) ==
    [c EXCEPT !.pc = "failed", !.app.alert = message]

\* initializeAsHost / initializeAsParticipant once ensureAuthenticated has
\* returned: userId, setupSessionReferences, and the first remote call
afterAuth(c) ==
    LET t == [c.fm EXCEPT !.userId = TRUE, !.sessionRef = SPath(c.fm)]
    IN IF c.op = "create"
       THEN [c EXCEPT !.fm = t, !.pc = "setInfo", !.issued = @ + 1,
                      !.q = Append(@, Call("init", "setInfo", t.sessionRef, Null))]
       ELSE [c EXCEPT !.fm = t, !.pc = "get",
                      !.q = Append(@, Call("init", "get", t.sessionRef, Null))]

\* createSession / joinSession of the transport: set(participantRef, ...)
writeParticipant(c) ==
    [c EXCEPT !.pc = "setPart", !.issued = @ + 1,
              !.q = Append(@, Call("init", "setPart", SPath(c.fm), UKey(c.fm)))]

\* setupRealtimeListeners, setupDisconnectionHandling, return true, and the
\* rest of the Coordinator's createSession / joinSession
initialized(c) ==
    LET t == [c.fm EXCEPT !.listeners = TRUE, !.presenceInterval = TRUE,
                          !.onDisconnect = TRUE]
        c1 == [c EXCEPT !.fm = t, !.dirty = TRUE, !.pc = "done"]
    IN IF c.app.firebaseMessaging
       THEN [c1 EXCEPT !.app.currentUser = "u", !.app.view = "main"]
       ELSE [c1 EXCEPT !.app.alert = "Authentication failed. Please try again."]

\* leaveSession: the fields it resets; the alert is what the user was shown
cleared(a) ==
    [CoAppInit EXCEPT !.votingEnabled = FALSE, !.alert = a.alert]

\* the end of disconnect() and of leaveSession
disconnected(c) ==
    [c EXCEPT !.lpc = "done",
              !.fm.listeners = FALSE,
              !.fm.sessionId = FALSE,
              !.fm.userId = FALSE,
              !.fm.isHost = FALSE,
              !.dirty = FALSE,
              !.app = cleared(c.app)]

\* the store applies a write
Applied(d, call) ==
    CASE call.kind = "setInfo" -> [d EXCEPT ![call.path].info = TRUE]
      [] call.kind \in {"setPart", "setPresence"} ->
           [d EXCEPT ![call.path].participants = MapSet(@, call.key, TRUE)]
      [] call.kind \in {"setConnected"} ->
           [d EXCEPT ![call.path].participants = MapSet(@, call.key, FALSE)]
      [] OTHER -> d

\* the code after the await of a call that has resolved
Resumed(c, call) ==
    CASE call.by = "init" /\ call.kind = "get" ->
           IF c.db[call.path].info THEN writeParticipant(c)
           ELSE Thrown(c, "Session not found. Please check the session ID.")
      [] call.by = "init" /\ call.kind = "setInfo" -> writeParticipant(c)
      [] call.by = "init" /\ call.kind = "setPart" -> initialized(c)
      [] call.by = "leave" /\ call.kind = "setConnected" ->
           [c EXCEPT !.lpc = "setLastSeen",
                     !.q = Append(@, Call("leave", "setLastSeen", SPath(c.fm),
                                          UKey(c.fm)))]
      [] call.by = "leave" /\ call.kind = "setLastSeen" -> disconnected(c)
      [] OTHER -> c

\* the code after the await of a call that has been rejected
Caught(c, call) ==
    CASE call.by = "init" -> Thrown(c, "Authentication failed. Please try again.")
      [] call.by = "leave" -> disconnected(c)
      [] OTHER -> c

\* an onValue event is due when the document the listener is on has changed
Notified(c0, c) ==
    IF c.fm.listeners /\ c.fm.sessionRef \in DOMAIN c.db
          /\ c.db[c.fm.sessionRef] # c0.db[c.fm.sessionRef]
    THEN [c EXCEPT !.dirty = TRUE]
    ELSE c

restVars == <<mode, status, app, cbm, inboxLS, pendingSync, pendingReq, fm, db,
              dirty, nextTaskId, calls, budget, entry, hb, wr, pr, fr, ls, tm, lv>>

\* createSession / joinSession up to the first call that leaves the page
begin(op) ==
    LET c1 == [co EXCEPT !.op = op,
                         !.app.isHost = (op = "create"),
                         !.app.currentSession = TRUE,
                         !.app.firebaseMessaging = TRUE,
                         !.fm.sessionId = TRUE,
                         !.fm.isHost = (op = "create")]
    IN IF co.signedIn THEN afterAuth(c1) ELSE [c1 EXCEPT !.pc = "auth"]

createSession_await ==
    /\ co.op = "none"
    /\ co' = begin("create")
    /\ UNCHANGED restVars

joinSession_await ==
    /\ co.op = "none"
    /\ co' = begin("join")
    /\ UNCHANGED restVars

\* signInAnonymously resolves
signInAnonymously_resolved ==
    /\ co.pc = "auth"
    /\ co' = afterAuth([co EXCEPT !.signedIn = TRUE])
    /\ UNCHANGED restVars

\* signInAnonymously rejects
signInAnonymously_rejected ==
    /\ co.pc = "auth"
    /\ co' = Thrown(co, "Authentication failed. Please try again.")
    /\ UNCHANGED restVars

\* the oldest outstanding call on the database connection resolves
resolved ==
    /\ co.q # <<>>
    /\ LET call == Head(co.q)
           c1 == [co EXCEPT !.q = Tail(@), !.db = Applied(@, call)]
       IN co' = Notified(co, Resumed(c1, call))
    /\ UNCHANGED restVars

\* the oldest outstanding call is rejected (permission denied, network)
rejected ==
    /\ co.q # <<>>
    /\ co' = Caught([co EXCEPT !.q = Tail(@)], Head(co.q))
    /\ UNCHANGED restVars

\* leaveSession up to its first await: disconnect() clears the presence
\* interval and, with userId and sessionId set, awaits set(connected, false)
leaveSession_await ==
    /\ co.op # "none" /\ co.lpc = "none"
    /\ LET c1 == [co EXCEPT !.raced = Awaiting(co)]
       IN co' = IF ~co.app.firebaseMessaging
                THEN [c1 EXCEPT !.lpc = "done", !.app = cleared(co.app)]
                ELSE LET c2 == [c1 EXCEPT !.fm.presenceInterval = FALSE]
                     IN IF co.fm.userId /\ co.fm.sessionId
                        THEN [c2 EXCEPT !.lpc = "setConnected",
                                        !.q = Append(@, Call("leave", "setConnected",
                                                             SPath(co.fm), UKey(co.fm)))]
                        ELSE disconnected(c2)
    /\ UNCHANGED restVars

\* the setInterval callback updatePresence: two set() nobody awaits
updatePresence ==
    /\ co.fm.presenceInterval /\ co.ticks < MaxTicks
    /\ co' = [co EXCEPT !.ticks = @ + 1, !.issued = @ + 1,
                        !.q = Append(@, Call("timer", "setPresence",
                                             SPath(co.fm), UKey(co.fm)))]
    /\ UNCHANGED restVars

\* the onValue callback: handleStateChange of the simplified Coordinator
snapshot ==
    /\ co.fm.listeners /\ co.dirty
    /\ LET doc == co.db[co.fm.sessionRef]
           ps  == DOMAIN doc.participants
                    \cup (IF co.app.currentUser # Null THEN {co.app.currentUser} ELSE {})
       IN co' = IF Exists(doc)
                THEN [co EXCEPT !.dirty = FALSE,
                                !.app.participants = ps,
                                !.app.votingEnabled = TRUE,
                                !.app.currentSession = (@ \/ co.fm.sessionId)]
                ELSE [co EXCEPT !.dirty = FALSE]
    /\ UNCHANGED restVars


\* ----------------------------------------- presence (CrossBrowserMessaging)
\* The participant table of the transport of user "h" next to one peer
\* "p", with time in seconds.  hb holds the clock, the time the interval
\* callback of startHeartbeat is due, the table (userId -> lastSeen), and
\* what is known of the peer: whether it runs, when its last heartbeat,
\* its last message carrying its userId and its last message of any kind
\* arrived, and the user-left{reason: timeout} reports made for it.

\* checkParticipantHealth: the entries it deletes and reports
checkParticipantHealth_inclusive(table, now, myUserId) ==
    {u \in DOMAIN table : u # myUserId /\ now - table[u] >= timeout}

checkParticipantHealth(table, now, myUserId) ==
    {u \in DOMAIN table : u # myUserId /\ now - table[u] > timeout}

\* handleMessage, first part, for a message whose userId field is userId
\* (Null when the message has none)
updateLastSeen(table, now, myUserId, userId) ==
    IF userId # Null /\ userId # myUserId
    THEN MapSet(table, userId, now)
    ELSE table

\* initializeAsHost puts the host into its own table; a participant's
\* table starts empty
HealthStart(isHost) ==
    [ now       |-> 0,
      nextBeat  |-> heartbeatPeriod,
      myUserId  |-> "h",
      table     |-> IF isHost THEN MapSet(EmptyMap, "h", 0) ELSE EmptyMap,
      peer      |-> "absent",
      lastBeat  |-> 0 - 1,
      named     |-> 0 - 1,
      heard     |-> 0 - 1,
      reported  |-> {},
      reports   |-> 0 ]

NoHealth == HealthStart(FALSE)

healthRest == <<mode, status, app, cbm, inboxLS, pendingSync, pendingReq, fm, db,
                dirty, nextTaskId, calls, budget, entry, co, wr, pr, fr, ls, tm, lv>>

\* a second passes; the interval callback runs when it is due, and a peer
\* that runs lets no more than heartbeatPeriod pass between two heartbeats
Tick ==
    /\ hb.now < MaxTime
    /\ hb.now < hb.nextBeat
    /\ hb.peer = "running" => hb.now < hb.lastBeat + heartbeatPeriod
    /\ hb' = [hb EXCEPT !.now = @ + 1]
    /\ UNCHANGED healthRest

\* the setInterval callback of startHeartbeat: sendHeartbeat, then
\* checkParticipantHealth
heartbeatInterval ==
    /\ hb.now = hb.nextBeat
    /\ LET out == checkParticipantHealth(hb.table, hb.now, hb.myUserId)
       IN hb' = [hb EXCEPT !.nextBeat = @ + heartbeatPeriod,
                           !.table    = [u \in DOMAIN hb.table \ out |-> hb.table[u]],
                           !.reported = out,
                           !.reports  = @ + Cardinality(out)]
    /\ UNCHANGED healthRest

\* a heartbeat of the peer arrives: handleMessage with userId "p"
receiveHeartbeat ==
    /\ hb.peer \in {"absent", "running", "stopped"}
    /\ hb.lastBeat < hb.now
    /\ hb' = [hb EXCEPT !.peer     = "running",
                        !.lastBeat = hb.now,
                        !.named    = hb.now,
                        !.heard    = hb.now,
                        !.reported = {},
                        !.reports  = 0,
                        !.table    = updateLastSeen(@, hb.now, hb.myUserId, "p")]
    /\ UNCHANGED healthRest

\* a message of the peer that has no userId field (task-added,
\* task-selected, votes-revealed, next-round, state-sync) arrives
receiveUnnamed ==
    /\ hb.peer = "running"
    /\ hb.heard < hb.now
    /\ hb' = [hb EXCEPT !.heard    = hb.now,
                        !.reported = {},
                        !.table    = updateLastSeen(@, hb.now, hb.myUserId, Null)]
    /\ UNCHANGED healthRest

\* the peer's tab is closed or suspended: nothing more arrives from it
peerStops ==
    /\ hb.peer = "running"
    /\ hb' = [hb EXCEPT !.peer = "stopped", !.reported = {}]
    /\ UNCHANGED healthRest

\* ------------------------------------------- remote writes (Cloud transport)
\* The writes of FirebaseMessaging, one operation at a time, on a session
\* document that a host "h" has created.  Two versions of the class are
\* covered: the one of src/unnamed/part_002, and the one of
\* src/assets/js/firebase-messaging.js ("legacy"), whose selectTask and
\* nextRound call set() on the session root where the other calls
\* update().  wr holds the version, the document, and for the last
\* operation its name, its caller and the paths its writes were aimed at.
\* A path is the sequence of keys below sessions/{id}.

\* the session documents the operations start from
Documents ==
    { [ info         |-> [ hostId        |-> "h",
                           createdAt     |-> "t0",
                           currentTaskId |-> t,
                           votingEnabled |-> e,
                           votesRevealed |-> r ],
        participants |-> [u \in ps |-> [isHost |-> (u = "h"), connected |-> TRUE]],
        tasks        |-> ts,
        votes        |-> [u \in vs |-> "5"] ]
      : t \in {Null, TaskId(1)}, e \in BOOLEAN, r \in BOOLEAN,
        ps \in {{"h"}, {"h", "p"}},
        ts \in {<<>>, <<[id |-> TaskId(1), createdBy |-> "h"]>>},
        vs \in SUBSET Users }

WritesStart(legacy, d) ==
    [ legacy  |-> legacy,
      doc     |-> d,
      op      |-> "none",
      by      |-> Null,
      targets |-> {},
      n       |-> 0 ]

NoWrites == WritesStart(FALSE, CHOOSE d \in Documents : TRUE)

\* this.isHost of the transport
TransportIsHost(c) == c = "h"

\* the object selectTask / nextRound hands to update() or set(): its keys,
\* as paths
updates == {<<"info", "currentTaskId">>, <<"info", "votingEnabled">>,
            <<"info", "votesRevealed">>, <<"votes">>}

\* set(sessionRef, updates) of the legacy class, when the store takes the
\* object as the new value of the session: info, participants and tasks
\* are gone, the keys 'info/...' are no fields of info
setOnRoot(d) ==
    [ info         |-> [ hostId        |-> Null,
                         createdAt     |-> Null,
                         currentTaskId |-> Null,
                         votingEnabled |-> FALSE,
                         votesRevealed |-> FALSE ],
      participants |-> EmptyMap,
      tasks        |-> <<>>,
      votes        |-> EmptyMap ]

\* updatePresence: set(.../lastSeen), set(.../connected, true)
updatePresenceDoc(d, c) ==
    [d EXCEPT !.participants[c].connected = TRUE]

writesRest == <<mode, status, app, cbm, inboxLS, pendingSync, pendingReq, fm, db,
                dirty, nextTaskId, calls, budget, entry, co, hb, pr, fr, ls, tm, lv>>

\* one operation of c: the document it leaves and the paths it wrote to
Wrote(op, c, d2, targets) ==
    /\ wr.n < MaxWrites
    /\ c \in DOMAIN wr.doc.participants
    /\ wr' = [wr EXCEPT !.doc = d2, !.op = op, !.by = c, !.targets = targets,
                        !.n = @ + 1]
    /\ UNCHANGED writesRest

write_joinSession(c) ==
    /\ wr.n < MaxWrites
    /\ c \notin DOMAIN wr.doc.participants
    /\ wr' = [wr EXCEPT !.doc = FM_joinSession(@, c), !.op = "joinSession",
                        !.by = c, !.targets = {<<"participants", c>>},
                        !.n = @ + 1]
    /\ UNCHANGED writesRest

write_castVote(c, v) ==
    IF ~wr.legacy /\ v \notin allowedVotes
    THEN Wrote("castVote", c, wr.doc, {})
    ELSE Wrote("castVote", c, castVote(wr.doc, c, v), {<<"votes", c>>})

write_revealVotes(c) ==
    IF ~TransportIsHost(c)
    THEN Wrote("revealVotes", c, wr.doc, {})
    ELSE Wrote("revealVotes", c, FM_revealVotes(wr.doc),
               {<<"info", "votesRevealed">>})

write_addTask(c) ==
    /\ Len(wr.doc.tasks) < MaxTasks
    /\ IF ~TransportIsHost(c)
       THEN Wrote("addTask", c, wr.doc, {})
       ELSE LET id == TaskId(Len(wr.doc.tasks) + 1)
            IN Wrote("addTask", c, FM_addTask(wr.doc, c, id), {<<"tasks", id>>})

\* selectTask: update(sessionRef, updates); in the legacy class
\* set(sessionRef, updates), which the store's client either refuses for
\* the '/' in the keys or takes as the new value of the session
write_selectTask(c, taskId) ==
    IF ~TransportIsHost(c)
    THEN Wrote("selectTask", c, wr.doc, {})
    ELSE IF wr.legacy
         THEN \E d2 \in {wr.doc, setOnRoot(wr.doc)} :
                 Wrote("selectTask", c, d2, {<<>>})
         ELSE Wrote("selectTask", c, FM_selectTask(wr.doc, taskId), updates)

write_nextRound(c) ==
    IF ~TransportIsHost(c)
    THEN Wrote("nextRound", c, wr.doc, {})
    ELSE IF wr.legacy
         THEN \E d2 \in {wr.doc, setOnRoot(wr.doc)} :
                 Wrote("nextRound", c, d2, {<<>>})
         ELSE Wrote("nextRound", c, FM_nextRound(wr.doc), updates)

\* the interval runs once setupDisconnectionHandling has been reached
write_updatePresence(c) ==
    /\ c \in DOMAIN wr.doc.participants
    /\ Wrote("updatePresence", c, updatePresenceDoc(wr.doc, c),
             {<<"participants", c, "lastSeen">>, <<"participants", c, "connected">>})

\* disconnect writes when userId and sessionId are set
write_disconnect(c) ==
    /\ c \in DOMAIN wr.doc.participants
    /\ Wrote("disconnect", c, disconnect(wr.doc, c),
             {<<"participants", c, "connected">>, <<"participants", c, "lastSeen">>})

\* ------------------------------------------------ presence (Cloud transport)
\* One client of the Cloud transport and its record participants/{uid} in
\* the store, with time in seconds.  pr holds what the client is doing, its
\* connection, the record (exists, connected), whether the store holds the
\* client's onDisconnect operation, the client's interval timer and the
\* seconds until it is due, the writes the client has issued and the store
\* has not applied yet (they wait while the connection is down), the
\* awaited write whose acknowledgement the client has not resumed from, and
\* the seconds since the connection was last established.  The store runs
\* an onDisconnect operation once, when the connection it was registered on
\* is lost; it is not re-registered by the code.  Writes reach the store
\* in less than a second while the connection is up.
PresenceStart ==
    [ client           |-> "idle",
      online           |-> TRUE,
      exists           |-> FALSE,
      connected        |-> FALSE,
      hook             |-> FALSE,
      presenceInterval |-> FALSE,
      due              |-> 0,
      outbox           |-> <<>>,
      acked            |-> "none",
      since            |-> 0 ]

NoPresence == PresenceStart

presenceRest == <<mode, status, app, cbm, inboxLS, pendingSync, pendingReq, fm, db,
                  dirty, nextTaskId, calls, budget, entry, co, hb, wr, fr, ls, tm, lv>>

\* a write joins the queue of the connection; a set(connected, true) behind
\* another one changes nothing and is not queued twice
Issue(q, w) ==
    IF q # <<>> /\ q[Len(q)] = w /\ w = "presence" THEN q ELSE Append(q, w)

\* the record after the store has applied a write
Stored(p, w) ==
    CASE w = "join"         -> [p EXCEPT !.exists = TRUE, !.connected = TRUE]
      [] w = "presence"     -> [p EXCEPT !.exists = TRUE, !.connected = TRUE]
      [] w = "leave"        -> [p EXCEPT !.exists = TRUE, !.connected = FALSE]
      [] w = "onDisconnect" -> [p EXCEPT !.hook = TRUE]
      [] OTHER              -> p

\* setupDisconnectionHandling: setInterval(updatePresence, 30000) and
\* onDisconnect(participantRef).update({connected: false, ...})
setupDisconnectionHandling(p) ==
    [p EXCEPT !.presenceInterval = TRUE,
              !.due              = presencePeriod,
              !.outbox           = Issue(@, "onDisconnect")]

\* initializeAsHost / initializeAsParticipant up to the await of the write
\* of the participant record in createSession / joinSession
presence_initialize ==
    /\ pr.client = "idle"
    /\ pr' = [pr EXCEPT !.client = "joining", !.outbox = Issue(@, "join")]
    /\ UNCHANGED presenceRest

\* the store applies the oldest write of the connection
presence_applied ==
    /\ pr.online /\ pr.outbox # <<>> /\ pr.acked = "none"
    /\ LET w == Head(pr.outbox)
       IN pr' = [Stored(pr, w) EXCEPT !.outbox = Tail(pr.outbox),
                                      !.acked  = IF w \in {"join", "leave"}
                                                 THEN w ELSE "none"]
    /\ UNCHANGED presenceRest

\* the code after the await: the rest of initializeAs..., or the rest of
\* disconnect()
presence_resumed ==
    /\ pr.acked # "none" /\ pr.online
    /\ pr' = IF pr.acked = "join"
             THEN [setupDisconnectionHandling(pr) EXCEPT !.client = "in",
                                                         !.acked  = "none"]
             ELSE [pr EXCEPT !.client = "left", !.acked = "none"]
    /\ UNCHANGED presenceRest

\* the interval callback updatePresence
presence_updatePresence ==
    /\ pr.presenceInterval /\ pr.due = 0
    /\ pr' = [pr EXCEPT !.due = presencePeriod, !.outbox = Issue(@, "presence")]
    /\ UNCHANGED presenceRest

\* leaveSession -> disconnect(): clearInterval, await set(connected, false)
presence_leaveSession ==
    /\ pr.client = "in"
    /\ pr' = [pr EXCEPT !.client = "leaving", !.presenceInterval = FALSE,
                        !.outbox = Issue(@, "leave")]
    /\ UNCHANGED presenceRest

\* the connection of the client is lost
connectionLost ==
    /\ pr.online /\ pr.client \in {"joining", "in", "leaving", "left"}
    /\ pr' = [pr EXCEPT !.online = FALSE]
    /\ UNCHANGED presenceRest

\* the client library has connected again
connectionRestored ==
    /\ ~pr.online /\ pr.client # "crashed"
    /\ pr' = [pr EXCEPT !.online = TRUE, !.since = 0]
    /\ UNCHANGED presenceRest

\* the page is closed or the browser crashes, without leaveSession
pageClosed ==
    /\ pr.client \in {"joining", "in"}
    /\ pr' = [pr EXCEPT !.client = "crashed", !.online = FALSE,
                        !.presenceInterval = FALSE, !.outbox = <<>>,
                        !.acked = "none"]
    /\ UNCHANGED presenceRest

\* the store notices the lost connection and runs the onDisconnect
\* operation registered on it
onDisconnect_fires ==
    /\ ~pr.online /\ pr.hook
    /\ pr' = [pr EXCEPT !.hook = FALSE, !.exists = TRUE, !.connected = FALSE]
    /\ UNCHANGED presenceRest

\* a second passes
presence_Tick ==
    /\ pr.presenceInterval /\ pr.due > 0
    /\ pr.online => (pr.outbox = <<>> /\ pr.acked = "none")
    /\ pr' = [pr EXCEPT !.due = @ - 1,
                        !.since = IF @ > presencePeriod THEN @ ELSE @ + 1]
    /\ UNCHANGED presenceRest

\* ---------------------------------------------------------------------
\* Leaving, timing out and coming back on the Polling transport.
\* The transport (CrossBrowserMessaging) and the Coordinator of the
\* participant "p", who has joined the session of the host "h" and has
\* applied its state-sync, so that its roster holds the host.  Time in
\* seconds, kept relative to the current instant: the table holds
\* lastSeen - now for every id, down to -(timeout + 1), and the current
\* instant is 0.
\* ---------------------------------------------------------------------

HostUser == [id |-> "h", isHost |-> TRUE]

\* the host's Coordinator while it hosts: what its state-sync carries
HostApp ==
    [P2PAppInit EXCEPT !.currentUser    = "h",
                       !.currentSession = "S",
                       !.isHost         = TRUE,
                       !.connectionMode = "cross-browser",
                       !.participants   = MapSet(EmptyMap, "h", HostUser)]

LeaveStart ==
    [ app      |-> [P2PAppInit EXCEPT !.currentUser    = "p",
                                      !.currentSession = "S",
                                      !.connectionMode = "cross-browser",
                                      !.participants   = MapSet(EmptyMap, "h", HostUser)],
      table    |-> MapSet(EmptyMap, "h", 0),   \* this.participants: id -> lastSeen
      due      |-> heartbeatPeriod,            \* time until the interval callback
      peer     |-> "in",                       \* "in", "stalled" (in, heartbeats held up), "left"
      hosting  |-> TRUE,                       \* the peer is the host of the session
      beat     |-> 0,                          \* time since the peer's last heartbeat
      reported |-> {},                         \* user-left{timeout} of the last callback
      falsely  |-> FALSE ]                     \* the peer, in the session and in the roster, was reported

NoLeave == LeaveStart

leaveRest == <<mode, status, app, cbm, inboxLS, pendingSync, pendingReq, fm, db,
               dirty, nextTaskId, calls, budget, entry, co, hb, wr, pr, fr, ls, tm>>

\* the table a second later
Aged(table) ==
    [u \in DOMAIN table |-> IF table[u] > 0 - (timeout + 1) THEN table[u] - 1
                                                            ELSE table[u]]

\* a second passes; the interval callback runs when it is due, and a peer
\* that runs lets no more than heartbeatPeriod pass between two heartbeats
leave_Tick ==
    /\ lv.due > 0
    /\ lv.peer = "in" => lv.beat < heartbeatPeriod
    /\ lv' = [lv EXCEPT !.due   = @ - 1,
                        !.table = Aged(@),
                        !.beat  = IF @ < heartbeatPeriod THEN @ + 1 ELSE @]
    /\ UNCHANGED leaveRest

\* the setInterval callback of startHeartbeat: checkParticipantHealth
\* deletes the entries that timed out and hands user-left{reason: timeout}
\* to the Coordinator, whose processMessage calls handleUserLeft
leave_heartbeatInterval ==
    /\ lv.due = 0
    /\ LET out == checkParticipantHealth(lv.table, 0, "p")
       IN lv' = [lv EXCEPT
                   !.due      = heartbeatPeriod,
                   !.table    = [u \in DOMAIN lv.table \ out |-> lv.table[u]],
                   !.app      = IF "h" \in out THEN handleUserLeft(@, "h") ELSE @,
                   !.reported = out,
                   !.falsely  = @ \/ (/\ "h" \in out /\ lv.peer # "left"
                                      /\ "h" \in DOMAIN lv.app.participants)]
    /\ UNCHANGED leaveRest

\* a heartbeat of the peer arrives: handleMessage refreshes the entry and
\* stops there (case 'heartbeat': break)
leave_receiveHeartbeat ==
    /\ lv.peer \in {"in", "stalled"} /\ lv.beat > 0
    /\ lv' = [lv EXCEPT !.peer     = "in",
                        !.beat     = 0,
                        !.reported = {},
                        !.table    = updateLastSeen(@, 0, "p", "h")]
    /\ UNCHANGED leaveRest

\* the peer's page is throttled or its messages are held up: it stays in
\* the session and its heartbeats do not arrive
peerStalls ==
    /\ lv.peer = "in"
    /\ lv' = [lv EXCEPT !.peer = "stalled", !.reported = {}]
    /\ UNCHANGED leaveRest

\* the peer calls leaveSession and its user-left messages arrive (the one
\* of the Coordinator and the one of disconnect(), both with its userId):
\* handleMessage refreshes the entry and forwards the message, and the
\* Coordinator's processMessage calls handleUserLeft
leave_receiveUserLeft ==
    /\ lv.peer \in {"in", "stalled"}
    /\ lv' = [lv EXCEPT !.peer     = "left",
                        !.hosting  = FALSE,
                        !.falsely  = FALSE,
                        !.reported = {},
                        !.table    = updateLastSeen(@, 0, "p", "h"),
                        !.app      = handleUserLeft(@, "h")]
    /\ UNCHANGED leaveRest

\* the peer joins the session again and its user-joined arrives:
\* handleMessage refreshes the entry and stops there
leave_receiveUserJoined ==
    /\ lv.peer = "left"
    /\ lv' = [lv EXCEPT !.peer     = "in",
                        !.beat     = 0,
                        !.reported = {},
                        !.table    = updateLastSeen(@, 0, "p", "h")]
    /\ UNCHANGED leaveRest

\* a state-sync of the host arrives (it sends one when a user joins or
\* asks for the state): it has no userId, and the Coordinator's
\* processMessage calls handleStateSync
leave_receiveStateSync ==
    /\ lv.peer = "in" /\ lv.hosting
    /\ lv' = [lv EXCEPT !.reported = {},
                        !.table    = updateLastSeen(@, 0, "p", Null),
                        !.app      = handleStateSync(@, getSessionState(HostApp))]
    /\ UNCHANGED leaveRest

\* ---------------------------------------------------------------------
\* The shared-store key of the Polling transport
\* (CrossBrowserMessaging.broadcastMessage, src/unnamed/part_001:211-250).
\* Every page of the session writes its messages to the one key
\* planning-poker-messages-<sessionId> and sets a timer of 5 s that
\* removes the key if it still holds the value written.  Time in seconds.
\* ---------------------------------------------------------------------

MessageTypes == {"heartbeat", "vote-cast"}

\* messageWithId, as JSON.stringify writes it: two values are the same
\* string when sender, content and Date.now() agree
messageWithId(c, type, now) ==
    [senderId |-> c, type |-> type, timestamp |-> now]

TransientStart ==
    [ key    |-> <<>>,                        \* localStorage.getItem(storageKey)
      timers |-> {},                          \* the pending cleanup timers
      open   |-> [c \in Users |-> TRUE],      \* the page of c is open
      now    |-> 0,
      n      |-> 0 ]

NoTransient == TransientStart

transientRest == <<mode, status, app, cbm, inboxLS, pendingSync, pendingReq, fm, db,
                   dirty, nextTaskId, calls, budget, entry, co, hb, wr, pr, fr, ls, lv>>

\* broadcastMessage: localStorage.setItem(storageKey, storageValue) and
\* setTimeout(..., 5000)
transient_broadcastMessage(c, type) ==
    /\ tm.open[c] /\ tm.n < MaxSends /\ tm.now + cleanupDelay <= MaxClock
    /\ LET storageValue == messageWithId(c, type, tm.now)
       IN tm' = [tm EXCEPT
                   !.key    = <<storageValue>>,
                   !.timers = @ \cup {[owner |-> c, storageValue |-> storageValue,
                                       due |-> tm.now + cleanupDelay]},
                   !.n      = @ + 1]
    /\ UNCHANGED transientRest

\* the callback of the timer that c set for its message of this type
\* 5 s ago: removeItem if the key still holds storageValue
transient_cleanup(c, type) ==
    LET storageValue == messageWithId(c, type, tm.now - cleanupDelay)
        timer == [owner |-> c, storageValue |-> storageValue, due |-> tm.now]
    IN /\ timer \in tm.timers /\ tm.open[c]
       /\ tm' = [tm EXCEPT
                   !.key    = IF tm.key = <<storageValue>> THEN <<>> ELSE @,
                   !.timers = @ \ {timer}]
       /\ UNCHANGED transientRest

\* the page of c is closed: its timers are gone with it
transient_pageClosed(c) ==
    /\ tm.open[c]
    /\ tm' = [tm EXCEPT !.open[c] = FALSE,
                        !.timers  = {t \in @ : t.owner # c}]
    /\ UNCHANGED transientRest

\* one second passes; a timer that is due runs first
transient_Tick ==
    /\ tm.now < MaxClock
    /\ \A t \in tm.timers : t.due > tm.now
    /\ tm' = [tm EXCEPT !.now = @ + 1]
    /\ UNCHANGED transientRest

\* ------------------------------------------- FragmentSharingManager (fragment)
\* One FragmentSharingManager and the Coordinator whose callback it holds.
\* fr holds the manager's fields (isHost, sessionId, currentState), the URL
\* it last generated (url), the one it had generated before that (old)
\* and the state the last URL was made from, the length of
\* the JSON text of that state modulo 3 (it depends on the lengths of the
\* names and titles, which the model does not follow), the Coordinator's
\* Session State, the number of state-update callbacks made, and the name
\* and outcome of the last operation.  A value that is null or an object
\* is a sequence of length 0 or 1.  Timestamps are left out.
\*
\* A JSON text is [kind, obj, len3, latin1]: what JSON.parse makes of it
\* (an object, null, a number, or a syntax error), its length modulo 3 and
\* whether all its characters are below U+0100.  A token is [chars, len4,
\* text]: the alphabet of its characters, its length modulo 4 and the
\* bytes it stands for.

\* the card written "coffee" here is the character U+2615; btoa accepts
\* characters up to U+00FF only
Latin1(s) == s # "coffee"

FragmentCards == {"1", "coffee"}

\* Array.from(map.keys()): the keys of a Map as an array
RECURSIVE Keys(_)
Keys(S) ==
    IF S = {} THEN <<>>
    ELSE LET k == CHOOSE k \in S : TRUE IN <<k>> \o Keys(S \ {k})

\* the last element of an array whose key is k
LastWith(arr, key(_), k) ==
    arr[CHOOSE j \in DOMAIN arr :
            /\ key(arr[j]) = k
            /\ \A j2 \in DOMAIN arr : j2 > j => key(arr[j2]) # k]

compressParticipants(participants) ==
    LET ks == Keys(DOMAIN participants)
    IN [j \in DOMAIN ks |-> [ i |-> ks[j],
                              n |-> participants[ks[j]].name,
                              h |-> participants[ks[j]].isHost ]]

expandParticipants(compressed) ==
    LET key(p) == p.i
    IN [k \in {compressed[j].i : j \in DOMAIN compressed} |->
           LET p == LastWith(compressed, key, k)
           IN [id |-> p.i, name |-> p.n, isHost |-> p.h]]

compressTasks(tasks) ==
    [j \in DOMAIN tasks |-> [ i |-> tasks[j].id,
                              t |-> tasks[j].title,
                              d |-> tasks[j].description,
                              c |-> tasks[j].createdAt,
                              b |-> tasks[j].createdBy ]]

expandTasks(compressed) ==
    [j \in DOMAIN compressed |-> [ id          |-> compressed[j].i,
                                   title       |-> compressed[j].t,
                                   description |-> compressed[j].d,
                                   createdAt   |-> compressed[j].c,
                                   createdBy   |-> compressed[j].b ]]

compressVotes(votes) ==
    LET ks == Keys(DOMAIN votes)
    IN [j \in DOMAIN ks |-> <<ks[j], votes[ks[j]]>>]

expandVotes(compressed) ==
    LET key(e) == e[1]
    IN [k \in {compressed[j][1] : j \in DOMAIN compressed} |->
           LastWith(compressed, key, k)[2]]

\* an object without any of the keys of a minimal state
EmptyObject ==
    [ has |-> {}, sid |-> Null, v |-> 0, p |-> <<>>, t |-> <<>>, ct |-> Null,
      vt |-> <<>>, ve |-> FALSE, vr |-> FALSE ]

\* compressState: minimalState after the keys whose value is null or
\* undefined have been deleted; has is the set of keys it still holds
minimalState(state) ==
    [ has |-> {"v", "p", "t", "vt", "ve", "vr"}
                \cup (IF state.sessionId # Null THEN {"sid"} ELSE {})
                \cup (IF state.currentTaskId # Null THEN {"ct"} ELSE {}),
      sid |-> state.sessionId,
      v   |-> state.version,
      p   |-> compressParticipants(state.participants),
      t   |-> compressTasks(state.tasks),
      ct  |-> state.currentTaskId,
      vt  |-> compressVotes(state.votes),
      ve  |-> state.votingEnabled,
      vr  |-> state.votesRevealed ]

\* JSON.stringify(minimalState)
stringify(m, len3) ==
    [ kind   |-> "object",
      obj    |-> m,
      len3   |-> len3,
      latin1 |-> /\ \A j \in DOMAIN m.vt : Latin1(m.vt[j][2])
                 /\ \A j \in DOMAIN m.p : Latin1(m.p[j].n)
                 /\ \A j \in DOMAIN m.t : Latin1(m.t[j].t) /\ Latin1(m.t[j].d) ]

\* btoa(jsonString), then '+' -> '-', '/' -> '_', '=' removed; btoa throws
\* for a character above U+00FF and compressState returns null
compressState(state, len3) ==
    LET text == stringify(minimalState(state), len3)
        pad  == (3 - text.len3) % 3
    IN IF ~text.latin1 THEN <<>>
       ELSE << [chars |-> "base64url", len4 |-> (4 - pad) % 4, text |-> text] >>

\* the three bytes the four characters n, u, l, l stand for: no JSON text
Undecodable == [kind |-> "invalid", obj |-> EmptyObject, len3 |-> 0, latin1 |-> TRUE]

\* `#state=${stateData}` with stateData null
NullLiteral == [chars |-> "base64url", len4 |-> 0, text |-> Undecodable]

\* generateShareableURL
generateShareableURL(state, len3) ==
    LET stateData == compressState(state, len3)
    IN [ prefix |-> "state=",
         token  |-> IF stateData = <<>> THEN NullLiteral ELSE stateData[1] ]

\* atob after '-' -> '+', '_' -> '/' and padding with '=' to a multiple of
\* four: it throws for a character outside the alphabet and for a length
\* of 4k + 1
atob(token) ==
    IF token.chars \in {"base64", "base64url"} /\ token.len4 # 1
    THEN <<token.text>> ELSE <<>>

\* JSON.parse and the reads of minimalState.sid, .v, ...: a syntax error
\* and a read on null throw; a read on a number finds nothing
parsed(text) ==
    CASE text.kind = "object" -> <<text.obj>>
      [] text.kind = "number" -> <<EmptyObject>>
      [] OTHER                -> <<>>

\* decompressState: null when anything has thrown
decompressState(token) ==
    LET bytes == atob(token)
        m0    == IF bytes = <<>> THEN <<>> ELSE parsed(bytes[1])
    IN IF m0 = <<>> THEN <<>>
       ELSE LET m == m0[1]
            IN << [ sessionId     |-> IF "sid" \in m.has THEN m.sid ELSE Null,
                    version       |-> IF "v" \in m.has /\ m.v # 0 THEN m.v ELSE 1,
                    participants  |-> IF "p" \in m.has THEN expandParticipants(m.p)
                                      ELSE EmptyMap,
                    tasks         |-> IF "t" \in m.has THEN expandTasks(m.t) ELSE <<>>,
                    currentTaskId |-> IF "ct" \in m.has THEN m.ct ELSE Null,
                    votes         |-> IF "vt" \in m.has THEN expandVotes(m.vt)
                                      ELSE EmptyMap,
                    votingEnabled |-> "ve" \in m.has /\ m.ve,
                    votesRevealed |-> "vr" \in m.has /\ m.vr ] >>

\* parseFragmentURL
parseFragmentURL(url) ==
    IF url.prefix \in {"state=", "join="} THEN decompressState(url.token)
    ELSE <<>>

\* handleFragmentStateUpdate of the Coordinator
handleFragmentStateUpdate(state) ==
    [ participants  |-> state.participants,
      tasks         |-> state.tasks,
      currentTaskId |-> state.currentTaskId,
      votes         |-> state.votes,
      votingEnabled |-> state.votingEnabled,
      votesRevealed |-> state.votesRevealed ]

\* the length of a string: "long" stands for a description of as many
\* characters as a URL may have, "long title" for a title over the limit
\* and "cut title" for its first titleLimit characters
length(str) ==
    CASE str = "long"       -> maxURLLength
      [] str = "long title" -> titleLimit + Len(str)
      [] str = "cut title"  -> titleLimit
      [] OTHER              -> Len(str)

\* task.title.substring(0, 50)
substring_0_50(title) ==
    IF length(title) > titleLimit THEN "cut title" ELSE title

RECURSIVE Sum(_)
Sum(numbers) ==
    IF numbers = <<>> THEN 0 ELSE Head(numbers) + Sum(Tail(numbers))

\* the characters of the JSON text that come from the strings of the state
\* (keys, punctuation, numbers and flags add to them)
textLength(m) ==
    Sum([j \in DOMAIN m.p |-> length(m.p[j].i) + length(m.p[j].n)])
      + Sum([j \in DOMAIN m.t |-> length(m.t[j].i) + length(m.t[j].t)
                                    + length(m.t[j].d) + length(m.t[j].b)])
      + Sum([j \in DOMAIN m.vt |-> length(m.vt[j][1]) + length(m.vt[j][2])])

\* getURLLength: the length of generateShareableURL(), at least; base64
\* writes four characters for three
getURLLength(state, len3) ==
    LET stateData == compressState(state, len3)
    IN Len("#state=")
         + (IF stateData = <<>> THEN Len("null")
            ELSE (4 * textLength(stateData[1].text.obj)) \div 3)

\* isStateTooLarge
isStateTooLarge(state, len3) == getURLLength(state, len3) > maxURLLength

\* createSimplifiedState
createSimplifiedState(state) ==
    [state EXCEPT
        !.tasks = [j \in DOMAIN state.tasks |->
                      [state.tasks[j] EXCEPT !.title = substring_0_50(@),
                                             !.description = ""]],
        !.votes = IF state.votesRevealed THEN state.votes ELSE EmptyMap]

\* what getSessionState() of a Coordinator in a session can return
SessionStates ==
    { s \in [ sessionId     : {"ABC123"},
              participants  : {[u \in D |-> [id |-> u, name |-> u, isHost |-> u = "h"]] :
                                  D \in {{"h"}, {"h", "p"}}},
              tasks         : {<<>>} \cup
                              {<<[id |-> TaskId(1), title |-> td[1], description |-> td[2],
                                  createdAt |-> 1, createdBy |-> "h"]>> :
                                  td \in {<<"t", "">>, <<"t", "d">>, <<"t", "long">>,
                                          <<"long title", "long">>}},
              currentTaskId : {Null, TaskId(1)},
              votes         : UNION {[D -> FragmentCards] : D \in SUBSET Users},
              votingEnabled : BOOLEAN,
              votesRevealed : BOOLEAN ] :
        DOMAIN s.votes \subseteq DOMAIN s.participants }

\* {sessionId, version, timestamp, ...initialState}
Versioned(s, v) ==
    [ sessionId     |-> s.sessionId,
      version       |-> v,
      participants  |-> s.participants,
      tasks         |-> s.tasks,
      currentTaskId |-> s.currentTaskId,
      votes         |-> s.votes,
      votingEnabled |-> s.votingEnabled,
      votesRevealed |-> s.votesRevealed ]

\* tokens nobody encoded: characters outside the alphabet, a length of
\* 4k + 1, bytes that are no JSON text, the texts null, 5 and {}
CorruptTokens ==
    LET obj == [kind |-> "object", obj |-> EmptyObject, len3 |-> 2, latin1 |-> TRUE]
    IN { [chars |-> "other",     len4 |-> 0, text |-> obj],
         [chars |-> "base64url", len4 |-> 1, text |-> obj],
         [chars |-> "base64url", len4 |-> 0, text |-> Undecodable],
         [chars |-> "base64url", len4 |-> 2, text |-> [obj EXCEPT !.kind = "null", !.len3 = 1]],
         [chars |-> "base64url", len4 |-> 2, text |-> [obj EXCEPT !.kind = "number", !.len3 = 1]],
         [chars |-> "base64url", len4 |-> 3, text |-> obj] }

CorruptUrls == {[prefix |-> p, token |-> t] : p \in {"state=", "join="}, t \in CorruptTokens}

FragmentStart ==
    [ isHost       |-> FALSE,
      sessionId    |-> Null,
      currentState |-> <<>>,
      url          |-> <<>>,
      old          |-> <<>>,
      encoded      |-> <<>>,
      len3         |-> 0,
      app          |-> [ participants  |-> EmptyMap,
                         tasks         |-> <<>>,
                         currentTaskId |-> Null,
                         votes         |-> EmptyMap,
                         votingEnabled |-> FALSE,
                         votesRevealed |-> FALSE ],
      updates      |-> 0,
      op           |-> "none",
      failed       |-> FALSE,
      n            |-> 0 ]

NoFragment == FragmentStart

fragmentRest == <<mode, status, app, cbm, inboxLS, pendingSync, pendingReq, fm, db,
                  dirty, nextTaskId, calls, budget, entry, co, hb, wr, pr, ls, tm, lv>>

\* the URLs a user can paste or open: the one last shared, the one shared
\* before it, or a corrupt one
OfferedUrls ==
    {fr.url[j] : j \in DOMAIN fr.url} \cup {fr.old[j] : j \in DOMAIN fr.old}
        \cup CorruptUrls

\* createSession(sessionId, initialState) of a Coordinator whose
\* getSessionState() is s: updateURL, generateShareableURL
fragment_createSession(s, len3) ==
    /\ fr.n < MaxShares /\ fr.currentState = <<>>
    /\ LET cur == Versioned(s, 1)
       IN fr' = [fr EXCEPT !.isHost       = TRUE,
                           !.sessionId    = s.sessionId,
                           !.currentState = <<cur>>,
                           !.len3         = len3,
                           !.url          = <<generateShareableURL(cur, len3)>>,
                           !.encoded      = <<cur>>,
                           !.app          = handleFragmentStateUpdate(s),
                           !.op           = "createSession",
                           !.failed       = FALSE,
                           !.n            = @ + 1]
    /\ UNCHANGED fragmentRest

\* broadcastMessage in fragment mode: the Coordinator has revealed the
\* votes and hands its state to updateState
fragment_updateState ==
    /\ fr.n < MaxShares /\ fr.currentState # <<>>
    /\ fr.currentState[1].version < MaxVersion
    /\ LET cur == [fr.currentState[1] EXCEPT !.votesRevealed = TRUE,
                                             !.version = @ + 1]
       IN fr' = [fr EXCEPT !.currentState = <<cur>>,
                           !.old          = fr.url,
                           !.url          = <<generateShareableURL(cur, fr.len3)>>,
                           !.encoded      = <<cur>>,
                           !.app          = handleFragmentStateUpdate(cur),
                           !.op           = "updateState",
                           !.failed       = FALSE,
                           !.n            = @ + 1]
    /\ UNCHANGED fragmentRest

\* the fields after a state has been imported
Imported(isHost, state) ==
    [fr EXCEPT !.isHost       = isHost,
               !.sessionId    = state.sessionId,
               !.currentState = <<state>>,
               !.app          = handleFragmentStateUpdate(state),
               !.updates      = @ + 1,
               !.failed       = FALSE]

\* joinSession(url): throws 'Invalid session URL' when parseFragmentURL
\* returns null
fragment_joinSession(url) ==
    /\ fr.n < MaxShares
    /\ LET state == parseFragmentURL(url)
           f     == IF state = <<>> THEN [fr EXCEPT !.failed = TRUE]
                    ELSE Imported(FALSE, state[1])
       IN fr' = [f EXCEPT !.op = "joinSession", !.n = @ + 1]
    /\ UNCHANGED fragmentRest

\* loadFromCurrentURL with url in the address bar: returns null when the
\* hash holds neither 'state=' nor 'join=' or cannot be parsed
fragment_loadFromCurrentURL(url) ==
    /\ fr.n < MaxShares
    /\ LET state == parseFragmentURL(url)
           f     == IF state = <<>> THEN [fr EXCEPT !.failed = TRUE]
                    ELSE Imported(fr.isHost, state[1])
       IN fr' = [f EXCEPT !.op = "loadFromCurrentURL", !.n = @ + 1]
    /\ UNCHANGED fragmentRest

\* ------------------------------------------------ PlanningPokerApp (storage)
\* The localStorage variant: the item planning-poker-{id} and the
\* Coordinators of the contexts "h" (who creates the session) and "p" (who
\* joins it), with time in seconds.  ls holds the item (a sequence of
\* length 0 or 1), per context the Coordinator's fields and the seconds
\* until its polling interval is due, the seconds since the item was last
\* written, the task ids handed out and the number of user operations.
\* this.currentSession is the object that saveSessionToStorage writes; the
\* Coordinator keeps its own fields next to it.

\* constructor
StorageAppInit ==
    [ currentUser    |-> Null,
      currentSession |-> <<>>,
      isHost         |-> FALSE,
      participants   |-> EmptyMap,
      tasks          |-> <<>>,
      currentTaskId  |-> Null,
      votes          |-> EmptyMap,
      votingEnabled  |-> FALSE,
      votesRevealed  |-> FALSE ]

StorageStart(dues) ==
    [ stored |-> <<>>,
      ctx    |-> [c \in Users |-> StorageAppInit],
      due    |-> dues,
      since  |-> 0,
      tasks  |-> 0,
      n      |-> 0 ]

NoStorage == StorageStart([c \in Users |-> pollPeriod])

storageRest == <<mode, status, app, cbm, inboxLS, pendingSync, pendingReq, fm, db,
                 dirty, nextTaskId, calls, budget, entry, co, hb, wr, pr, fr, tm, lv>>

\* saveSessionToStorage: Object.fromEntries of the two Maps, JSON.stringify,
\* setItem; with the string keys of the ids the entries are kept
saveSessionToStorage(a, stored) ==
    IF a.currentSession = <<>> THEN stored ELSE a.currentSession

\* loadSessionFromStorage: getItem, JSON.parse, new Map(Object.entries(...))
loadSessionFromStorage(stored) == stored

hasChanges_noVotes(a, sessionData) ==
    \/ Cardinality(DOMAIN sessionData.participants) # Cardinality(DOMAIN a.participants)
    \/ \E id \in DOMAIN sessionData.participants :
          \/ id \notin DOMAIN a.participants
          \/ a.participants[id] # sessionData.participants[id]
    \/ sessionData.tasks # a.tasks
    \/ sessionData.currentTaskId # a.currentTaskId
    \/ sessionData.votingEnabled # a.votingEnabled
    \/ sessionData.votesRevealed # a.votesRevealed

\* checkForUpdates: hasChanges
hasChanges(a, sessionData) ==
    \/ Cardinality(DOMAIN sessionData.participants) # Cardinality(DOMAIN a.participants)
    \/ \E id \in DOMAIN sessionData.participants :
          \/ id \notin DOMAIN a.participants
          \/ a.participants[id] # sessionData.participants[id]
    \/ sessionData.tasks # a.tasks
    \/ sessionData.currentTaskId # a.currentTaskId
    \/ sessionData.votingEnabled # a.votingEnabled
    \/ sessionData.votesRevealed # a.votesRevealed
    \/ Cardinality(DOMAIN sessionData.votes) # Cardinality(DOMAIN a.votes)
    \/ \E id \in DOMAIN sessionData.votes :
          id \notin DOMAIN a.votes \/ a.votes[id] # sessionData.votes[id]

\* the Coordinator's fields taken from a session object
Adopted(a, sessionData) ==
    [a EXCEPT !.currentSession = <<sessionData>>,
              !.participants   = sessionData.participants,
              !.tasks          = sessionData.tasks,
              !.currentTaskId  = sessionData.currentTaskId,
              !.votes          = sessionData.votes,
              !.votingEnabled  = sessionData.votingEnabled,
              !.votesRevealed  = sessionData.votesRevealed]

\* checkForUpdates
checkForUpdates(a, stored) ==
    LET sessionData == loadSessionFromStorage(stored)
    IN IF sessionData = <<>> THEN a
       ELSE IF hasChanges(a, sessionData[1]) THEN Adopted(a, sessionData[1])
       ELSE a

\* a user operation of c that ends with saveSessionToStorage
Saved(c, a) ==
    /\ ls.n < MaxStorageOps
    /\ ls' = [ls EXCEPT !.ctx[c] = a,
                        !.stored = saveSessionToStorage(a, ls.stored),
                        !.since  = 0,
                        !.n      = @ + 1]
    /\ UNCHANGED storageRest

createSession_storage(c) ==
    /\ c = Creator /\ ls.ctx[c].currentSession = <<>> /\ ls.stored = <<>>
    /\ LET currentUser == [id |-> c, name |-> c, isHost |-> TRUE]
           session == [ id            |-> "ABC123",
                        hostId        |-> c,
                        participants  |-> MapSet(EmptyMap, c, currentUser),
                        tasks         |-> <<>>,
                        currentTaskId |-> Null,
                        votes         |-> EmptyMap,
                        votingEnabled |-> FALSE,
                        votesRevealed |-> FALSE ]
       IN Saved(c, [ls.ctx[c] EXCEPT !.currentUser    = c,
                                     !.currentSession = <<session>>,
                                     !.isHost         = TRUE,
                                     !.participants   = session.participants,
                                     !.tasks          = session.tasks])

joinSession_storage(c) ==
    /\ c # Creator /\ ls.ctx[c].currentSession = <<>>
    /\ loadSessionFromStorage(ls.stored) # <<>>
    /\ LET sessionData == loadSessionFromStorage(ls.stored)[1]
           currentUser == [id |-> c, name |-> c, isHost |-> FALSE]
           session     == [sessionData EXCEPT !.participants = MapSet(@, c, currentUser)]
       IN Saved(c, [Adopted(ls.ctx[c], session) EXCEPT !.currentUser = c,
                                                       !.isHost      = FALSE])

leaveSession_storage(c) ==
    /\ ls.ctx[c].currentSession # <<>>
    /\ LET session == [ls.ctx[c].currentSession[1] EXCEPT
                          !.participants = MapDelete(@, c)]
       IN /\ ls.n < MaxStorageOps
          /\ ls' = [ls EXCEPT !.ctx[c]  = StorageAppInit,
                              !.stored = <<session>>,
                              !.since  = 0,
                              !.n      = @ + 1]
    /\ UNCHANGED storageRest

addTask_storage(c) ==
    /\ ls.ctx[c].currentSession # <<>> /\ ls.tasks < MaxTasks
    /\ LET task  == [id |-> TaskId(ls.tasks + 1), createdBy |-> c]
           tasks == Append(ls.ctx[c].tasks, task)
       IN /\ ls.n < MaxStorageOps
          /\ ls' = [ls EXCEPT !.ctx[c].tasks = tasks,
                              !.ctx[c].currentSession[1].tasks = tasks,
                              !.stored = <<[ls.ctx[c].currentSession[1] EXCEPT
                                               !.tasks = tasks]>>,
                              !.since  = 0,
                              !.tasks  = @ + 1,
                              !.n      = @ + 1]
    /\ UNCHANGED storageRest

selectTask_storage(c, taskId) ==
    /\ ls.ctx[c].currentSession # <<>> /\ ls.ctx[c].isHost
    /\ \E j \in DOMAIN ls.ctx[c].tasks : ls.ctx[c].tasks[j].id = taskId
    /\ Saved(c, [ls.ctx[c] EXCEPT !.currentTaskId = taskId,
                                  !.votingEnabled = TRUE,
                                  !.votesRevealed = FALSE,
                                  !.votes         = EmptyMap,
                                  !.currentSession[1].currentTaskId = taskId,
                                  !.currentSession[1].votingEnabled = TRUE,
                                  !.currentSession[1].votesRevealed = FALSE,
                                  !.currentSession[1].votes         = EmptyMap])

vote_storage(c, value) ==
    /\ ls.ctx[c].currentSession # <<>>
    /\ ls.ctx[c].votingEnabled /\ ~ls.ctx[c].votesRevealed
    /\ ls.ctx[c].currentTaskId # Null
    /\ Saved(c, [ls.ctx[c] EXCEPT !.votes = MapSet(@, c, value),
                                  !.currentSession[1].votes = MapSet(@, c, value)])

revealVotes_storage(c) ==
    /\ ls.ctx[c].currentSession # <<>> /\ ls.ctx[c].isHost
    /\ Saved(c, [ls.ctx[c] EXCEPT !.votesRevealed = TRUE,
                                  !.currentSession[1].votesRevealed = TRUE])

nextRound_storage(c) ==
    /\ ls.ctx[c].currentSession # <<>> /\ ls.ctx[c].isHost
    /\ Saved(c, [ls.ctx[c] EXCEPT !.votingEnabled = FALSE,
                                  !.votesRevealed = FALSE,
                                  !.votes         = EmptyMap,
                                  !.currentTaskId = Null,
                                  !.currentSession[1].votingEnabled = FALSE,
                                  !.currentSession[1].votesRevealed = FALSE,
                                  !.currentSession[1].votes         = EmptyMap,
                                  !.currentSession[1].currentTaskId = Null])

\* startPolling: the interval callback of c
startPolling(c) ==
    /\ ls.due[c] = 0
    /\ ls' = [ls EXCEPT !.due[c] = pollPeriod,
                        !.ctx[c] = IF ls.ctx[c].currentSession # <<>>
                                   THEN checkForUpdates(@, ls.stored) ELSE @]
    /\ UNCHANGED storageRest

\* a second passes
storage_Tick ==
    /\ \A c \in Users : ls.due[c] > 0
    /\ ls' = [ls EXCEPT !.due   = [c \in Users |-> ls.due[c] - 1],
                        !.since = IF @ > pollPeriod THEN @ ELSE @ + 1]
    /\ UNCHANGED storageRest

\* ------------------------------------------------------------ specification
\* the state after the page has loaded: every context has constructed its
\* Coordinator and is outside any session
InitWith(modes, b) ==
    /\ mode \in modes
    /\ status = [c \in Users |-> "idle"]
    /\ app = [c \in Users |-> IF mode = "cloud" THEN SimplifiedAppInit
                              ELSE IF mode = "cloudTasks" THEN FirebaseAppInit
                              ELSE P2PAppInit]
    /\ cbm = [c \in Users |-> CBMInit]
    /\ inboxLS = [c \in Users |-> <<>>]
    /\ pendingSync = [c \in Users |-> 0]
    /\ pendingReq = [c \in Users |-> FALSE]
    /\ fm = [c \in Users |-> FMInit]
    /\ db = DbInit
    /\ dirty = [c \in Users |-> FALSE]
    /\ nextTaskId = 1
    /\ calls = 0
    /\ budget = b

Init == InitWith(Modes, MaxCalls) /\ entry = NoEntry /\ co = NoCo /\ hb = NoHealth /\ wr = NoWrites /\ pr = NoPresence /\ fr = NoFragment /\ ls = NoStorage /\ tm = NoTransient /\ lv = NoLeave

Next ==
    \/ \E c \in Users : createSession(c)
    \/ \E c \in Users : joinSession(c)
    \/ \E c \in Users : leaveSession(c)
    \/ \E c \in Users : addTask(c)
    \/ \E c \in Users : \E t \in TaskIds : selectTask(c, t)
    \/ \E c \in Users : \E v \in VoteInputs : vote(c, v)
    \/ \E c \in Users : revealVotes(c)
    \/ \E c \in Users : nextRound(c)
    \/ \E c \in Users : DeliverLS(c)
    \/ \E c \in Users : FireSync(c)
    \/ \E c \in Users : FireReq(c)
    \/ \E c \in Users : createSessionFB(c)
    \/ \E c \in Users : joinSessionFB(c)
    \/ \E c \in Users : leaveSessionFB(c)
    \/ \E c \in Users : addTaskFB(c)
    \/ \E c \in Users : \E t \in TaskIds : selectTaskFB(c, t)
    \/ \E c \in Users : \E v \in VoteInputs : voteFB(c, v)
    \/ \E c \in Users : \E v \in VoteInputs : voteSimplified(c, v)
    \/ \E c \in Users : revealVotesFB(c)
    \/ \E c \in Users : nextRoundFB(c)
    \/ \E c \in Users : onValue(c)

Spec == Init /\ [][Next]_vars

\* ------------------------------------------------- one round, end to end
\* no 'storage' event is waiting and no timer is pending
Quiet ==
    /\ \A c \in Users : inboxLS[c] = <<>>
    /\ \A c \in Users : pendingSync[c] = 0
    /\ \A c \in Users : ~pendingReq[c]

\* updateResults: 'Consensus reached!' when the votes hold one distinct value
consensus(a) == Cardinality({a.votes[u] : u \in DOMAIN a.votes}) = 1

\* the Polling session in which the users start the operations of one round
\* in a fixed order, the k-th once k - 1 have gone through, while the
\* 'storage' events and the timers run as they come; the host starts the
\* next round once everything sent has arrived
RoundInit == InitWith({"poll"}, RoundCalls) /\ entry = NoEntry /\ co = NoCo /\ hb = NoHealth /\ wr = NoWrites /\ pr = NoPresence /\ fr = NoFragment /\ ls = NoStorage /\ tm = NoTransient /\ lv = NoLeave

RoundNext ==
    \/ calls = 0 /\ createSession("h")
    \/ calls = 1 /\ joinSession("p")
    \/ calls = 2 /\ addTask("h")
    \/ calls = 3 /\ selectTask("h", TaskId(1))
    \/ calls = 4 /\ vote("p", "5")
    \/ calls = 5 /\ vote("h", "8")
    \/ calls = 6 /\ revealVotes("h")
    \/ calls = 7 /\ Quiet /\ nextRound("h")
    \/ \E c \in Users : DeliverLS(c)
    \/ \E c \in Users : FireSync(c)
    \/ \E c \in Users : FireReq(c)

SpecRound == RoundInit /\ [][RoundNext]_vars

EntryInit ==
    /\ InitWith({"poll"}, MaxCalls)
    /\ entry \in {EntryStart(v, x, a) : v \in Variants, x \in BOOLEAN, a \in BOOLEAN}
    /\ co = NoCo
    /\ hb = NoHealth
    /\ wr = NoWrites /\ pr = NoPresence /\ fr = NoFragment /\ ls = NoStorage /\ tm = NoTransient /\ lv = NoLeave

EntryNext ==
    \/ \E r \in RandomFractions : createSession_p2p(r)
    \/ \E r \in RandomFractions : createSession_legacy(r)
    \/ \E r \in RandomFractions : createSession_firebase(r)
    \/ \E k \in RandomPicks : createSession_simplified(k)
    \/ \E s \in SessionInputs : joinSession_p2p(s)
    \/ \E s \in SessionInputs : joinSession_legacy(s)
    \/ \E s \in SessionInputs : joinSession_firebase(s)
    \/ \E s \in SessionInputs : joinSession_simplified(s)

SpecEntry == EntryInit /\ [][EntryNext]_vars

AsyncInit ==
    /\ InitWith({"cloud"}, MaxCalls)
    /\ entry = NoEntry
    /\ co \in {CoStart(s, x) : s \in BOOLEAN, x \in BOOLEAN}
    /\ hb = NoHealth
    /\ wr = NoWrites /\ pr = NoPresence /\ fr = NoFragment /\ ls = NoStorage /\ tm = NoTransient /\ lv = NoLeave

AsyncNext ==
    \/ createSession_await
    \/ joinSession_await
    \/ signInAnonymously_resolved
    \/ signInAnonymously_rejected
    \/ resolved
    \/ rejected
    \/ leaveSession_await
    \/ updatePresence
    \/ snapshot

SpecAsync == AsyncInit /\ [][AsyncNext]_vars

HealthInit ==
    /\ InitWith({"poll"}, MaxCalls)
    /\ entry = NoEntry
    /\ co = NoCo
    /\ hb \in {HealthStart(h) : h \in BOOLEAN}
    /\ wr = NoWrites /\ pr = NoPresence /\ fr = NoFragment /\ ls = NoStorage /\ tm = NoTransient /\ lv = NoLeave

HealthNext ==
    \/ Tick
    \/ heartbeatInterval
    \/ receiveHeartbeat
    \/ receiveUnnamed
    \/ peerStops

SpecHealth == HealthInit /\ [][HealthNext]_vars

WritesInit ==
    /\ InitWith({"cloudTasks"}, MaxCalls)
    /\ entry = NoEntry
    /\ co = NoCo
    /\ hb = NoHealth
    /\ wr \in {WritesStart(l, d) : l \in BOOLEAN, d \in Documents}
    /\ pr = NoPresence /\ fr = NoFragment /\ ls = NoStorage /\ tm = NoTransient /\ lv = NoLeave

WritesNext ==
    \/ \E c \in Users : write_joinSession(c)
    \/ \E c \in Users : \E v \in VoteInputs : write_castVote(c, v)
    \/ \E c \in Users : write_revealVotes(c)
    \/ \E c \in Users : write_addTask(c)
    \/ \E c \in Users : \E t \in TaskIds : write_selectTask(c, t)
    \/ \E c \in Users : write_nextRound(c)
    \/ \E c \in Users : write_updatePresence(c)
    \/ \E c \in Users : write_disconnect(c)

SpecWrites == WritesInit /\ [][WritesNext]_vars

PresenceInit ==
    /\ InitWith({"cloudTasks"}, MaxCalls)
    /\ entry = NoEntry
    /\ co = NoCo
    /\ hb = NoHealth
    /\ wr = NoWrites
    /\ pr = PresenceStart
    /\ fr = NoFragment /\ ls = NoStorage /\ tm = NoTransient /\ lv = NoLeave

PresenceNext ==
    \/ presence_initialize
    \/ presence_applied
    \/ presence_resumed
    \/ presence_updatePresence
    \/ presence_leaveSession
    \/ connectionLost
    \/ connectionRestored
    \/ pageClosed
    \/ onDisconnect_fires
    \/ presence_Tick

\* the store and the client library do what they are able to do; the
\* interval callback runs when it is due
SpecPresence ==
    /\ PresenceInit /\ [][PresenceNext]_vars
    /\ WF_vars(presence_applied) /\ WF_vars(presence_resumed)
    /\ WF_vars(presence_updatePresence) /\ WF_vars(onDisconnect_fires)

\* the user pastes the URL last shared into the join form
fragment_joinShared ==
    /\ fr.url # <<>>
    /\ fragment_joinSession(fr.url[1])

\* the user opens the URL last shared
fragment_loadShared ==
    /\ fr.url # <<>>
    /\ fragment_loadFromCurrentURL(fr.url[1])

\* the user pastes a URL that was shared before the last update
fragment_joinOlder ==
    /\ fr.old # <<>>
    /\ fragment_joinSession(fr.old[1])

FragmentInit ==
    /\ InitWith({"poll"}, MaxCalls)
    /\ entry = NoEntry
    /\ co = NoCo
    /\ hb = NoHealth
    /\ wr = NoWrites
    /\ pr = NoPresence
    /\ fr = FragmentStart
    /\ ls = NoStorage /\ tm = NoTransient /\ lv = NoLeave

FragmentNext ==
    \/ \E s \in SessionStates : \E len3 \in 0..2 : fragment_createSession(s, len3)
    \/ fragment_updateState
    \/ \E url \in CorruptUrls : fragment_joinSession(url)
    \/ \E url \in CorruptUrls : fragment_loadFromCurrentURL(url)
    \/ fragment_joinShared
    \/ fragment_loadShared
    \/ fragment_joinOlder

SpecFragment == FragmentInit /\ [][FragmentNext]_vars

StorageInit ==
    /\ InitWith({"poll"}, MaxCalls)
    /\ entry = NoEntry
    /\ co = NoCo
    /\ hb = NoHealth
    /\ wr = NoWrites
    /\ pr = NoPresence
    /\ fr = NoFragment
    /\ ls \in {StorageStart(dues) : dues \in [Users -> 1..pollPeriod]}
    /\ tm = NoTransient /\ lv = NoLeave

StorageNext ==
    \/ \E c \in Users : createSession_storage(c)
    \/ \E c \in Users : joinSession_storage(c)
    \/ \E c \in Users : leaveSession_storage(c)
    \/ \E c \in Users : addTask_storage(c)
    \/ \E c \in Users : \E taskId \in TaskIds : selectTask_storage(c, taskId)
    \/ \E c \in Users : \E value \in StorageVotes : vote_storage(c, value)
    \/ \E c \in Users : revealVotes_storage(c)
    \/ \E c \in Users : nextRound_storage(c)
    \/ \E c \in Users : startPolling(c)
    \/ storage_Tick

SpecStorage == StorageInit /\ [][StorageNext]_vars

TransientInit ==
    /\ InitWith({"poll"}, MaxCalls)
    /\ entry = NoEntry
    /\ co = NoCo
    /\ hb = NoHealth
    /\ wr = NoWrites
    /\ pr = NoPresence
    /\ fr = NoFragment
    /\ ls = NoStorage
    /\ tm = TransientStart
    /\ lv = NoLeave

TransientNext ==
    \/ \E c \in Users, type \in MessageTypes : transient_broadcastMessage(c, type)
    \/ \E c \in Users, type \in MessageTypes : transient_cleanup(c, type)
    \/ \E c \in Users : transient_pageClosed(c)
    \/ transient_Tick

SpecTransient == TransientInit /\ [][TransientNext]_vars

LeaveInit ==
    /\ InitWith({"poll"}, MaxCalls)
    /\ entry = NoEntry
    /\ co = NoCo
    /\ hb = NoHealth
    /\ wr = NoWrites
    /\ pr = NoPresence
    /\ fr = NoFragment
    /\ ls = NoStorage
    /\ tm = NoTransient
    /\ lv = LeaveStart

LeaveNext ==
    \/ leave_Tick
    \/ leave_heartbeatInterval
    \/ leave_receiveHeartbeat
    \/ peerStalls
    \/ leave_receiveUserLeft
    \/ leave_receiveUserJoined
    \/ leave_receiveStateSync

\* time passes, the interval callback runs, and the heartbeats of a peer
\* that runs arrive
SpecLeave ==
    /\ LeaveInit /\ [][LeaveNext]_vars
    /\ WF_vars(leave_Tick) /\ WF_vars(leave_heartbeatInterval)
    /\ WF_vars(lv.peer = "in" /\ leave_receiveHeartbeat)

\* ------------------------------------------------------------------ claims
\* the records of c's roster that are marked as host
Hosts(c) == {u \in DOMAIN app[c].participants : app[c].participants[u].isHost}

\* no context has received a new 'storage' event in this step
NoNewMessage == \A d \in Users : Len(inboxLS'[d]) = Len(inboxLS[d])

\* the step is a call of vote(value), selectTask(taskId), revealVotes(),
\* nextRound(), addTask() by the Coordinator of context c, in any deployment
VoteCall(c, value) == vote(c, value) \/ voteFB(c, value) \/ voteSimplified(c, value)
SelectTaskCall(c, taskId) == selectTask(c, taskId) \/ selectTaskFB(c, taskId)
RevealVotesCall(c) == revealVotes(c) \/ revealVotesFB(c)
NextRoundCall(c) == nextRound(c) \/ nextRoundFB(c)
AddTaskCall(c) == addTask(c) \/ addTaskFB(c)

\* the step hands the inbound message of the given type to context c
Inbound(type, c) == DeliverLS(c) /\ Head(inboxLS[c]).type = type

\* the call of this step went through (it was not an early return)
WentThrough == calls' = calls + 1

\* the Session State a selectTask(t) must leave
Selected(a, t) ==
    /\ a.currentTaskId = t
    /\ a.votingEnabled
    /\ ~a.votesRevealed
    /\ DOMAIN a.votes = {}

\* the Session State a nextRound must leave
Cleared(a) ==
    /\ DOMAIN a.votes = {}
    /\ ~a.votesRevealed
    /\ a.currentTaskId = Null

\* C1: every Coordinator inside a session has exactly one roster record
\* with isHost = true.  (Stated for the Polling deployment, whose join and
\* message handlers the claim is about.)
HostUniqueness ==
    \A c \in Users :
        (mode = "poll" /\ status[c] = "in") => Cardinality(Hosts(c)) = 1

\* the participant has joined and has not yet applied a state-sync: its
\* roster is its own record, which is not a host's
NoHostAfterJoin ==
    /\ mode = "poll"
    /\ status["p"] = "in"
    /\ DOMAIN app["p"].participants = {"p"}
    /\ Hosts("p") = {}

\* C2: while a Coordinator's votesRevealed stays true its votes mapping does
\* not change, whatever step is taken.
VotesImmutableOnceRevealed ==
    [][\A c \in Users :
         (app[c].votesRevealed /\ app'[c].votesRevealed)
            => app'[c].votes = app[c].votes]_vars

\* the Polling host has revealed the votes while the vote-cast of a
\* participant whose vote it does not hold is waiting to be delivered
VoteCastWaitsAfterReveal ==
    /\ mode = "poll"
    /\ app["h"].isHost
    /\ app["h"].votesRevealed
    /\ inboxLS["h"] # <<>>
    /\ Head(inboxLS["h"]).type = "vote-cast"
    /\ Head(inboxLS["h"]).userId \notin DOMAIN app["h"].votes

SelectTaskResult ==
    [][\A c \in Users :
         /\ \A t \in TaskIds :
              (selectTask(c, t) /\ WentThrough) => Selected(app'[c], t)
         /\ Inbound("task-selected", c)
              => Selected(app'[c], Head(inboxLS[c]).value)
         /\ (onValue(c) /\ db.info.currentTaskId # Null
               /\ db.info.votingEnabled /\ ~db.info.votesRevealed
               /\ DOMAIN db.votes = {})
              => Selected(app'[c], db.info.currentTaskId)]_vars

AddTaskHostOnly ==
    [][\A c \in Users :
         /\ (AddTaskCall(c) /\ ~app[c].isHost)
              => (app'[c].tasks = app[c].tasks /\ NoNewMessage /\ db' = db)
         /\ \A i \in DOMAIN app'[c].tasks :
              app'[c].tasks[i].createdBy = Creator]_vars

\* C7: currentTaskId of every Coordinator is null or the id of a task in
\* that Coordinator's task list.
CurrentTaskKnown ==
    \A c \in Users :
        \/ app[c].currentTaskId = Null
        \/ \E i \in DOMAIN app[c].tasks :
             app[c].tasks[i].id = app[c].currentTaskId

\* C8: every value in any Coordinator's votes mapping is a card of the
\* fixed set.
VotesAreCards ==
    \A c \in Users : \A u \in DOMAIN app[c].votes :
        app[c].votes[u] \in allowedVotes

\* C9: a vote(v) that goes through sets exactly the caller's entry to v (in
\* the caller's votes mapping on the Polling transport, in the votes of the
\* remote document on the Cloud transport); a delivered vote-cast sets
\* exactly the sender's entry at the receiver, and a snapshot shows the
\* votes of the document; every other entry keeps its value.
OneVotePerParticipant ==
    [][\A c \in Users :
         /\ \A v \in VoteInputs :
              (vote(c, v) /\ WentThrough)
                 => app'[c].votes = MapSet(app[c].votes, c, v)
         /\ \A v \in VoteInputs :
              ((voteFB(c, v) \/ voteSimplified(c, v)) /\ WentThrough)
                 => db'.votes = MapSet(db.votes, c, v)
         /\ onValue(c) => app'[c].votes = db.votes
         /\ Inbound("vote-cast", c)
              => app'[c].votes = MapSet(app[c].votes, Head(inboxLS[c]).userId,
                                        Head(inboxLS[c]).value)]_vars

\* the participant has cast "5", which the host holds, and then "8", which
\* is on its way to the host
SecondVoteCast ==
    /\ mode = "poll"
    /\ DOMAIN app["p"].votes = {"p"}
    /\ app["p"].votes["p"] = "8"
    /\ DOMAIN app["h"].votes = {"p"}
    /\ app["h"].votes["p"] = "5"
    /\ inboxLS["h"] = <<Msg("vote-cast", "p", "8")>>

RoundOutcome ==
    /\ (calls = 7 /\ Quiet) =>
          \A c \in Users :
              /\ app[c].votes = [u \in Users |-> IF u = "p" THEN "5" ELSE "8"]
              /\ app[c].votesRevealed
              /\ ~consensus(app[c])
    /\ (calls = 8 /\ Quiet) =>
          \A c \in Users :
              /\ DOMAIN app[c].votes = {}
              /\ ~app[c].votesRevealed

\* the round has run to its end: the host's nextRound has arrived at the
\* participant
RoundOver ==
    /\ calls = 8
    /\ Quiet
    /\ \A c \in Users : status[c] = "in" /\ Len(app[c].tasks) = 1

\* the step is a call of createSession() by the Coordinator of context c
CreateSessionCall(c) == createSession(c) \/ createSessionFB(c)

Untouched(e) ==
    /\ e.currentUser = Null
    /\ e.currentSession = NoSession
    /\ ~e.isHost
    /\ e.connectionMode = "none"
    /\ e.transport = "none"
    /\ e.active = {}
    /\ ~e.announced

\* C13: joinSession takes the session id to the transport exactly when it
\* is six characters of A-Z, 0-9; for any other string it reports a
\* failure, leaves the caller's state as it was and creates, initialises
\* and writes no transport.
JoinFormatChecked ==
    entry.op = "join" =>
        IF validSessionId(entry.arg)
        THEN entry.tried # <<>>
        ELSE /\ entry.alert # Null
             /\ entry.tried = <<>>
             /\ Untouched(entry)

\* C14: joinSession with a well-formed id of a session no host has created
\* reports a failure; the caller does not enter, no participant record or
\* user-joined goes out and the caller's state is as before the call.
JoinUnknownSessionFails ==
    (entry.op = "join" /\ validSessionId(entry.arg) /\ ~entry.sessionExists) =>
        /\ entry.alert # Null
        /\ Untouched(entry)

\* C15: the session id createSession produces is six characters of A-Z,
\* 0-9, in every Coordinator.
CreatedIdWellFormed ==
    entry.op = "create" => validSessionId(entry.currentSession.id)

\* the preference order of the transports
TransportOrder == <<"cloud", "polling", "fragment">>

\* C16: createSession tries the transports in the order Cloud, Polling,
\* Fragment, each only after the one before has failed; it ends with
\* exactly one active transport, the last one tried, or, all three having
\* failed, with none and a failure reported; never is more than one active.
TransportSelection ==
    /\ Cardinality(entry.active) <= 1
    /\ entry.op = "create" =>
          /\ entry.tried # <<>>
          /\ entry.tried = SubSeq(TransportOrder, 1, Len(entry.tried))
          /\ IF entry.active = {}
             THEN entry.tried = TransportOrder /\ entry.alert # Null
             ELSE entry.active = {entry.tried[Len(entry.tried)]}
                  /\ entry.alert = Null

\* C17: a createSession or joinSession that is rejected leaves the
\* Coordinator's currentUser, currentSession, isHost, transport handle and
\* connection mode as they were before the call.
RejectedEntryLeavesState ==
    (entry.op # "none" /\ entry.alert # Null) => Untouched(entry)

\* C18: when leaveSession returns, the caller's fields are those of a
\* Coordinator outside any session (no user, no session, not host, empty
\* roster, tasks and votes, voting disabled, nothing revealed) and its
\* transport neither listens nor holds a roster; a peer that handles the
\* user-left message, or the snapshot written by the leaver's disconnect,
\* has the leaver out of its roster or marked not connected.
LeaveSessionResult ==
    [][\A c \in Users :
          /\ leaveSession(c) =>
                /\ app'[c] = P2PAppInit
                /\ ~cbm'[c].listening
                /\ cbm'[c].participants = {}
          /\ leaveSessionFB(c) =>
                /\ app'[c] = P2PAppInit
                /\ fm'[c] = FMInit
          /\ \A l \in Users \ {c} :
                /\ (Inbound("user-left", c) /\ Head(inboxLS[c]).userId = l) =>
                      l \notin DOMAIN app'[c].participants
                /\ (onValue(c) /\ status[l] = "left"
                      /\ l \in DOMAIN app'[c].participants) =>
                      ~app'[c].participants[l].connected
      ]_vars

\* the host has left and the participant, who had it in its roster, has
\* handled both user-left messages
HostLeftAndNoticed ==
    /\ mode = "poll"
    /\ status["h"] = "left" /\ app["h"] = P2PAppInit
    /\ status["p"] = "in" /\ inboxLS["p"] = <<>>
    /\ "h" \in cbm["p"].participants
    /\ DOMAIN app["p"].participants = {"p"}

\* the messages waiting at d that name c as their userId
Naming(box, d, c) == {i \in DOMAIN box[d] : box[d][i].userId = c}

\* C19: once leaveSession has returned for c, no step emits a message that
\* names c, no write marks c connected again, and the fields of c's
\* Coordinator and of its transport stay as leaveSession left them.
QuietAfterLeave ==
    [][\A c \in Users : status[c] = "left" =>
          /\ \A d \in Users :
                Cardinality(Naming(inboxLS', d, c))
                    <= Cardinality(Naming(inboxLS, d, c))
          /\ (c \in DOMAIN db'.participants) => ~db'.participants[c].connected
          /\ app'[c] = app[c]
          /\ cbm'[c] = cbm[c]
          /\ fm'[c] = fm[c]
      ]_vars

\* the participant has left while its delayed requestState is still due
LeftWithTimerDue ==
    /\ mode = "poll"
    /\ status["p"] = "left" /\ pendingReq["p"]
    /\ status["h"] = "in"

\* the Coordinator is outside any session
NoSessionState(a) ==
    /\ a.currentUser = Null
    /\ ~a.currentSession
    /\ ~a.isHost
    /\ ~a.firebaseMessaging
    /\ a.participants = {}
    /\ a.view = "session"

\* C20: when leaveSession has been called while createSession or
\* joinSession was awaiting a remote call, no later step installs a
\* listener, a presence interval or an onDisconnect hook, none issues a
\* remote write of the initialisation or of the presence timer, and once
\* leaveSession has returned the Coordinator is outside any session.
LateResultDiscarded ==
    [][co.raced =>
          /\ co'.fm.listeners => co.fm.listeners
          /\ co'.fm.presenceInterval => co.fm.presenceInterval
          /\ co'.fm.onDisconnect => co.fm.onDisconnect
          /\ co'.issued = co.issued
          /\ co'.lpc = "done" => NoSessionState(co'.app)
      ]_vars

\* leaveSession was called during an await and has returned, and the
\* call that was outstanding has completed since
LeftDuringAwait ==
    /\ co.raced /\ co.lpc = "done"
    /\ co.pc \in {"done", "failed"}

\* the values of the vote-cast messages of c that wait, not yet handled, at
\* another context
PendingVotes(c) ==
    UNION {{inboxLS[d][i].value : i \in {j \in DOMAIN inboxLS[d] :
                                           /\ inboxLS[d][j].type = "vote-cast"
                                           /\ inboxLS[d][j].userId = c}}
           : d \in Users \ {c}}

\* the participants, votes and flags of the Coordinator a are those of the
\* state object
SameAsSnapshot(a, state) ==
    /\ a.participants = state.participants
    /\ a.votes = state.votes
    /\ a.votingEnabled = state.votingEnabled
    /\ a.votesRevealed = state.votesRevealed

\* C21: a snapshot (a state-sync message, a Cloud snapshot) applied while
\* a vote of the receiver has been sent but not yet handled leaves the
\* receiver with the snapshot and that vote on top; applied when nothing
\* of the receiver is pending it leaves the receiver's participants, votes
\* and flags exactly those of the snapshot.
SnapshotKeepsPending ==
    [][\A c \in Users :
          /\ Inbound("state-sync", c) =>
                IF PendingVotes(c) # {}
                THEN /\ c \in DOMAIN app'[c].votes
                     /\ app'[c].votes[c] \in PendingVotes(c)
                ELSE SameAsSnapshot(app'[c], Head(inboxLS[c]).state)
          /\ onValue(c) =>
                SameAsSnapshot(app'[c], convertFirebaseToAppState(db))
      ]_vars

\* a state-sync waits at the participant while its own vote has not yet
\* been handled by the host
SyncMeetsPendingVote ==
    /\ mode = "poll"
    /\ inboxLS["p"] # <<>> /\ Head(inboxLS["p"]).type = "state-sync"
    /\ PendingVotes("p") # {}

\* handleUserJoined: the roster entry it sets (its state-sync, sent by a
\* host, changes no field)
handleUserJoined(a, user) ==
    [a EXCEPT !.participants = MapSet(@, user.id, user)]

\* messages of every type that processMessage applies to the fields
InboundSamples ==
    {Msg("user-left", u, Null) : u \in Users}
      \cup {TaskMsg([id |-> t, createdBy |-> u]) : t \in TaskIds, u \in Users}
      \cup {Msg("task-selected", Null, t) : t \in TaskIds}
      \cup {Msg("vote-cast", u, v) : u \in Users, v \in VoteInputs}
      \cup {Msg("votes-revealed", Null, Null), Msg("next-round", Null, Null)}
      \cup {StateMsg(getSessionState(app[d])) : d \in Users}

\* the user objects a user-joined message carries
UserSamples == {[id |-> u, isHost |-> h] : u \in Users, h \in BOOLEAN}

\* C22: for a Coordinator in a session, applying an inbound message of any
\* type, or a Cloud snapshot, twice in a row leaves the same fields as
\* applying it once; a task-added applied twice leaves one entry for the
\* task.
InboundIdempotent ==
    \A c \in Users :
       /\ InPoll(c) =>
             /\ \A m \in InboundSamples :
                   processMessage(processMessage(app[c], m), m)
                       = processMessage(app[c], m)
             /\ \A u \in UserSamples :
                   handleUserJoined(handleUserJoined(app[c], u), u)
                       = handleUserJoined(app[c], u)
       /\ InCloud(c) =>
             onStateChange(onStateChange(app[c], db), db) = onStateChange(app[c], db)

\* a task-added message waits at a participant that is in the session
TaskAddedWaiting ==
    /\ InPoll("p")
    /\ inboxLS["p"] # <<>> /\ Head(inboxLS["p"]).type = "task-added"

\* the 'storage' events this step has added for d
Arrived(d) ==
    IF Len(inboxLS'[d]) > Len(inboxLS[d])
    THEN SubSeq(inboxLS'[d], Len(inboxLS[d]) + 1, Len(inboxLS'[d]))
    ELSE <<>>

\* this step has sent m to every context that listens next to c
SentByHost(c, m) ==
    \A d \in Receivers(c) :
       Arrived(d) # <<>> /\ Arrived(d)[Len(Arrived(d))] = m

\* C23: a host (transport and Coordinator) that handles request-state from
\* another participant sends a state-sync with its full state in that
\* step; one that handles user-joined from another schedules it, and sends
\* it when the timer fires; a participant that applies a state-sync has the
\* tasks, currentTaskId, votes and flags the message carries; every
\* state-sync that is sent carries the state of its sender, and its sender
\* is a Coordinator with isHost = true.
StateSyncOnJoin ==
    [][\A c \in Users :
          LET isHost == cbm[c].isHost /\ app[c].isHost
              sync   == StateMsg(getSessionState(app[c]))
          IN /\ (Inbound("request-state", c) /\ isHost) => SentByHost(c, sync)
             /\ (Inbound("user-joined", c) /\ isHost
                    /\ Head(inboxLS[c]).userId # c) =>
                   pendingSync'[c] = pendingSync[c] + 1
             /\ (FireSync(c) /\ isHost) => SentByHost(c, sync)
             /\ Inbound("state-sync", c) =>
                   LET state == Head(inboxLS[c]).state
                   IN /\ app'[c].tasks = state.tasks
                      /\ app'[c].currentTaskId = state.currentTaskId
                      /\ app'[c].votes = state.votes
                      /\ app'[c].votingEnabled = state.votingEnabled
                      /\ app'[c].votesRevealed = state.votesRevealed
             /\ \A i \in DOMAIN Arrived(c) :
                   Arrived(c)[i].type = "state-sync" =>
                      \E h \in Users \ {c} :
                         /\ app[h].isHost
                         /\ Arrived(c)[i].state = getSessionState(app[h])
      ]_vars

\* the participant has applied a state-sync that carried the host's
\* selected task
JoinerSynced ==
    /\ InPoll("p") /\ InPoll("h")
    /\ "h" \in DOMAIN app["p"].participants
    /\ app["p"].currentTaskId # Null
    /\ app["p"].votes # EmptyMap

\* C24 as stated: at a health check a peer still in the table from which
\* no message of any kind has arrived for more than 10 s is removed and
\* reported as timed out; no peer is reported whose last message arrived
\* within the 10 s; the transport's own user is never reported; one absence
\* gives one report.
PresenceTimeout ==
    [][heartbeatInterval =>
          /\ \A u \in DOMAIN hb.table \ {hb.myUserId} :
                hb.now - hb.heard > timeout =>
                   u \notin DOMAIN hb'.table /\ u \in hb'.reported
          /\ \A u \in hb'.reported : hb.now - hb.heard > timeout
          /\ hb.myUserId \notin hb'.reported
          /\ hb.myUserId \in DOMAIN hb.table => hb.myUserId \in DOMAIN hb'.table
          /\ hb'.reports <= 1
      ]_vars

\* C24, amended: the absence is counted from the last message that carried
\* the peer's userId (heartbeat, user-joined, request-state, vote-cast,
\* user-left); a message without a userId field does not count.
PresenceTimeoutByUserId ==
    [][heartbeatInterval =>
          /\ \A u \in DOMAIN hb.table \ {hb.myUserId} :
                hb.now - hb.named > timeout =>
                   u \notin DOMAIN hb'.table /\ u \in hb'.reported
          /\ \A u \in hb'.reported : hb.now - hb.named > timeout
          /\ hb.myUserId \notin hb'.reported
          /\ hb.myUserId \in DOMAIN hb.table => hb.myUserId \in DOMAIN hb'.table
          /\ hb'.reports <= 1
      ]_vars

\* the peer has been reported as timed out at a check, while the host's
\* own entry, older still, is in the table
PeerTimedOut ==
    /\ hb.reported = {"p"}
    /\ "p" \notin DOMAIN hb.table
    /\ "h" \in DOMAIN hb.table
    /\ hb.now - hb.named > timeout

\* the path begins with the keys of prefix
Below(path, prefix) ==
    /\ Len(path) >= Len(prefix)
    /\ SubSeq(path, 1, Len(prefix)) = prefix

\* the subtrees the stated access control lets c write
MayWrite(c, path) ==
    \/ Below(path, <<"participants", c>>)
    \/ Below(path, <<"votes", c>>)
    \/ /\ wr.doc.info.hostId = c \/ TransportIsHost(c)
       /\ Below(path, <<"info">>) \/ Below(path, <<"tasks">>)

\* C25: every write of an operation is aimed at the caller's own
\* participants/{id} or votes/{id} subtree or, when the caller is the
\* host, at info or tasks.
CloudWriteScope ==
    \A path \in wr.targets : MayWrite(wr.by, path)

\* the host has selected a task in a session where the participant has
\* voted
HostWroteVotes ==
    /\ wr.op = "selectTask" /\ wr.by = "h" /\ ~wr.legacy
    /\ wr.targets # {}

Gone == pr.exists /\ ~pr.online /\ pr.client \in {"joining", "in", "crashed"}

\* C27: the record of a client that is gone without leaveSession becomes
\* connected = false and stays so while it is gone; after leaveSession has
\* returned the record is connected = false and no write sets it back to
\* true; the record of a client that is in the session and has been
\* connected for more than one presence period is connected = true.
EventualPresence ==
    /\ Gone ~> (~Gone \/ ~pr.connected)
    /\ [][(Gone /\ Gone' /\ ~pr.connected) => ~pr'.connected]_vars
    /\ [](pr.client = "left" => ~pr.connected)
    /\ [](pr.client = "in" /\ pr.online /\ pr.since > presencePeriod
            => pr.exists /\ pr.connected)

\* the page was closed after the store had written the participant
\* record and before the onDisconnect operation was registered
ClosedBeforeOnDisconnect ==
    /\ pr.client = "crashed" /\ pr.exists /\ pr.connected /\ ~pr.hook

\* the fields a decoded state is compared on
SameState(a, b) ==
    /\ a.sessionId = b.sessionId
    /\ a.version = b.version
    /\ a.participants = b.participants
    /\ a.tasks = b.tasks
    /\ a.currentTaskId = b.currentTaskId
    /\ a.votes = b.votes
    /\ a.votingEnabled = b.votingEnabled
    /\ a.votesRevealed = b.votesRevealed

\* C29: joining through the URL generated from a Session State succeeds
\* and leaves a current state equal to the encoded one in sessionId,
\* version, participants, tasks, currentTaskId, votes and both flags.
FragmentRoundTrip ==
    [][\A url \in OfferedUrls :
          (fragment_joinSession(url) /\ fr.url = <<url>>) =>
              /\ ~fr'.failed
              /\ SameState(fr'.currentState[1], fr.encoded[1])
      ]_vars

\* a state with a coffee vote was shared and the join through its URL
\* has failed
CoffeeVoteShared ==
    /\ fr.op = "joinSession" /\ fr.failed
    /\ fr.encoded # <<>>
    /\ fr.url = <<generateShareableURL(fr.encoded[1], fr.len3)>>
    /\ \E u \in DOMAIN fr.encoded[1].votes : fr.encoded[1].votes[u] = "coffee"

\* a token that is badly encoded, cannot be parsed, or stands for a
\* structure without a session id
Malformed(url) ==
    \/ atob(url.token) = <<>>
    \/ url.token.text.kind # "object"
    \/ "sid" \notin url.token.text.obj.has

\* C30: joining or loading through a malformed token fails and leaves the
\* manager's isHost, sessionId and currentState and the Coordinator's
\* Session State as they were, without a state-update callback.
CorruptTokenNotApplied ==
    [][\A url \in OfferedUrls :
          (Malformed(url) /\ (fragment_joinSession(url) \/ fragment_loadFromCurrentURL(url))) =>
              /\ fr'.failed
              /\ fr'.isHost = fr.isHost
              /\ fr'.sessionId = fr.sessionId
              /\ fr'.currentState = fr.currentState
              /\ fr'.app = fr.app
              /\ fr'.updates = fr.updates
      ]_vars

\* a host has joined through the token of the text {} : its session id
\* and its Session State are gone
EmptyObjectApplied ==
    /\ fr.op = "joinSession" /\ ~fr.failed
    /\ fr.encoded # <<>> /\ fr.currentState # fr.encoded
    /\ fr.sessionId = Null /\ ~fr.isHost
    /\ fr.app.participants = EmptyMap
    /\ fr.updates = 1

\* C31: a token of the session held whose version is not higher than the
\* version held is discarded (current state, Session State and callback
\* count stay), and the version held for a session never decreases.
FragmentVersionOrder ==
    [][\A url \in OfferedUrls :
          (/\ fragment_joinSession(url) \/ fragment_loadFromCurrentURL(url)
           /\ fr.currentState # <<>>
           /\ parseFragmentURL(url) # <<>>
           /\ parseFragmentURL(url)[1].sessionId = fr.currentState[1].sessionId)
          => /\ fr'.currentState[1].version >= fr.currentState[1].version
             /\ parseFragmentURL(url)[1].version <= fr.currentState[1].version
                   => /\ fr'.currentState = fr.currentState
                      /\ fr'.app = fr.app
                      /\ fr'.updates = fr.updates
      ]_vars

\* the manager held version 2 of the session and has joined through the
\* URL of version 1
OlderTokenImported ==
    /\ fr.op = "joinSession" /\ ~fr.failed
    /\ fr.encoded # <<>> /\ fr.encoded[1].version = 2
    /\ fr.currentState # <<>> /\ fr.currentState[1].version = 1
    /\ fr.currentState[1].sessionId = fr.encoded[1].sessionId

\* C32: when the URL of the full encoding of the state is longer than the
\* ceiling, the URL shared carries the token of the simplified state; it
\* decodes, to the same sessionId, version, flags, participants and votes,
\* with empty descriptions and titles cut to the limit.
OversizeFallback ==
    (fr.url # <<>> /\ isStateTooLarge(fr.encoded[1], fr.len3)) =>
        /\ fr.url[1].token.text.obj = minimalState(createSimplifiedState(fr.encoded[1]))
        /\ parseFragmentURL(fr.url[1]) # <<>>
        /\ LET d == parseFragmentURL(fr.url[1])[1]
               e == fr.encoded[1]
           IN /\ d.sessionId = e.sessionId /\ d.version = e.version
              /\ d.votingEnabled = e.votingEnabled
              /\ d.votesRevealed = e.votesRevealed
              /\ d.participants = e.participants
              /\ d.votes = e.votes
              /\ \A j \in DOMAIN d.tasks :
                    d.tasks[j].description = "" /\ length(d.tasks[j].title) <= titleLimit

\* a state with a long description has been shared, and the URL is longer
\* than the ceiling
OversizeShared ==
    /\ fr.op \in {"createSession", "updateState"}
    /\ isStateTooLarge(fr.encoded[1], fr.len3)
    /\ fr.url[1].token.text.kind = "object"
    /\ \E j \in DOMAIN fr.url[1].token.text.obj.t :
          fr.url[1].token.text.obj.t[j].d = "long"

\* the six fields a poll compares, of a Coordinator or of a session object
View(x) ==
    [ participants  |-> x.participants,
      tasks         |-> x.tasks,
      currentTaskId |-> x.currentTaskId,
      votes         |-> x.votes,
      votingEnabled |-> x.votingEnabled,
      votesRevealed |-> x.votesRevealed ]

InStoredSession(c) == ls.ctx[c].currentSession # <<>> /\ ls.stored # <<>>

\* C33: a poll of a Coordinator whose view differs from the stored session
\* in one of the six fields leaves its view equal to the stored session,
\* and a poll that finds no difference changes nothing; when nobody has
\* written for a poll period and every due poll has run, every
\* Coordinator in the session has the view of the stored session.
PeriodicSync ==
    /\ [][\A c \in Users :
            (startPolling(c) /\ InStoredSession(c)) =>
                IF View(ls.ctx[c]) # View(ls.stored[1])
                THEN /\ View(ls'.ctx[c]) = View(ls.stored[1])
                     /\ ls'.ctx[c].currentSession = ls.stored
                ELSE ls'.ctx[c] = ls.ctx[c]
        ]_vars
    /\ []((ls.since >= pollPeriod /\ \A c \in Users : ls.due[c] > 0) =>
            \A c \in Users :
                InStoredSession(c) => View(ls.ctx[c]) = View(ls.stored[1]))

\* the host, who created the session, sees the vote of the participant: a
\* poll has brought it, and nobody has written for a poll period
HostPolledVote ==
    /\ InStoredSession("h") /\ InStoredSession("p")
    /\ "p" \in DOMAIN ls.ctx["h"].votes
    /\ ls.since >= pollPeriod /\ \A c \in Users : ls.due[c] > 0

\* a user operation of c that saves
StorageOp(c) ==
    \/ joinSession_storage(c) \/ leaveSession_storage(c) \/ addTask_storage(c)
    \/ \E value \in StorageVotes : vote_storage(c, value)
    \/ revealVotes_storage(c)
    \/ \E taskId \in TaskIds : selectTask_storage(c, taskId)
    \/ nextRound_storage(c)

\* C35: a save of c keeps the roster entries of the others in the stored
\* session and, unless it is the host's selectTask or nextRound, their
\* votes; a save of a participant who is not the host and is voting,
\* joining or leaving keeps the stored tasks, current task and flags.
NoLostUpdate ==
    [][\A c \in Users :
          (StorageOp(c) /\ ls.stored # <<>>) =>
              LET old == ls.stored[1]
                  new == ls'.stored[1]
              IN /\ \A u \in DOMAIN old.participants \ {c} :
                       u \in DOMAIN new.participants
                 /\ ~(nextRound_storage(c) \/ \E t \in TaskIds : selectTask_storage(c, t)) =>
                       \A u \in DOMAIN old.votes \ {c} :
                           u \in DOMAIN new.votes /\ new.votes[u] = old.votes[u]
                 /\ (c # old.hostId /\ ~addTask_storage(c)) =>
                       /\ new.tasks = old.tasks
                       /\ new.currentTaskId = old.currentTaskId
                       /\ new.votingEnabled = old.votingEnabled
                       /\ new.votesRevealed = old.votesRevealed
      ]_vars

\* both have voted and the stored session holds one vote only: the later
\* save has removed the other's vote
VoteOverwritten ==
    /\ InStoredSession("h") /\ InStoredSession("p")
    /\ "h" \in DOMAIN ls.ctx["h"].votes /\ "p" \in DOMAIN ls.ctx["p"].votes
    /\ ls.ctx["h"].currentTaskId = ls.ctx["p"].currentTaskId
    /\ Cardinality(DOMAIN ls.stored[1].votes) = 1
    /\ ls.since = 0

\* C34: the shared-store key never holds a message older than the cleanup
\* delay, and a cleanup timer that empties the key removes the message it
\* was set for, the one its page wrote a cleanup delay ago, never a newer
\* one.
TransientMessages ==
    /\ [](tm.key # <<>> => tm.now - tm.key[1].timestamp <= cleanupDelay)
    /\ [][\A c \in Users, type \in MessageTypes :
            (transient_cleanup(c, type) /\ tm.key # <<>> /\ tm'.key = <<>>) =>
                tm.key[1] = messageWithId(c, type, tm.now - cleanupDelay)
        ]_vars

\* the page that wrote the last message was closed before its timer ran:
\* the message is still in the key after the cleanup delay
MessageLeftBehind ==
    /\ tm.key # <<>>
    /\ ~tm.open[tm.key[1].senderId]
    /\ tm.now - tm.key[1].timestamp > cleanupDelay

\* C36: on the Polling transport, when no 'storage' event is waiting and no
\* timer is pending, the Coordinators of the two participants in the
\* session have the same votes, current task, flags and task list.
PollingConvergence ==
    (mode = "poll" /\ Quiet /\ \A c \in Users : InPoll(c)) =>
        /\ app["h"].votes = app["p"].votes
        /\ app["h"].currentTaskId = app["p"].currentTaskId
        /\ app["h"].votingEnabled = app["p"].votingEnabled
        /\ app["h"].votesRevealed = app["p"].votesRevealed
        /\ app["h"].tasks = app["p"].tasks

\* everything is delivered, both Coordinators are on the same task with
\* the same flags and task list, and the host holds a vote of the
\* participant that the participant's own Coordinator does not hold
VoteRaceDiverged ==
    /\ mode = "poll" /\ Quiet /\ \A c \in Users : InPoll(c)
    /\ app["h"].tasks = app["p"].tasks
    /\ app["h"].currentTaskId = app["p"].currentTaskId
    /\ app["h"].votingEnabled = app["p"].votingEnabled
    /\ app["h"].votesRevealed = app["p"].votesRevealed
    /\ "p" \in DOMAIN app["h"].votes
    /\ "p" \notin DOMAIN app["p"].votes

\* C37: on the Polling transport, when every message is delivered and no
\* timer is pending, the rosters of the host and of the joiner both hold
\* the host and the joiner; and applying a state-sync never removes a
\* Coordinator's own user from its roster.
RosterAfterJoin ==
    /\ []((mode = "poll" /\ Quiet /\ \A c \in Users : InPoll(c)) =>
             \A c \in Users : Users \subseteq DOMAIN app[c].participants)
    /\ [][\A c \in Users :
            (/\ DeliverLS(c)
             /\ Head(inboxLS[c]).type = "state-sync"
             /\ c \in DOMAIN app[c].participants) =>
                c \in DOMAIN app'[c].participants
        ]_vars

\* the join is over, everything is delivered, and the joiner is in neither
\* roster
JoinerInNoRoster ==
    /\ mode = "poll" /\ Quiet /\ \A c \in Users : InPoll(c)
    /\ "p" \notin DOMAIN app["h"].participants
    /\ "p" \notin DOMAIN app["p"].participants
    /\ "p" \in cbm["h"].participants

\* C38: in every Coordinator that is in a session, every key of the votes
\* is the id of a participant of its roster.
VotesOfKnownParticipants ==
    \A c \in Users :
        status[c] = "in" =>
            DOMAIN app[c].votes \subseteq DOMAIN app[c].participants

\* the host has recorded the vote of a participant that its roster does
\* not hold
VoteOfUnknown ==
    /\ mode = "poll" /\ \A c \in Users : InPoll(c)
    /\ "p" \in DOMAIN app["h"].votes
    /\ "p" \notin DOMAIN app["h"].participants

\* C39: once the user-left of a peer has been handled, the transport's
\* participant table does not list the peer and no user-left with reason
\* timeout is reported for it, until it joins again.
ExplicitLeaveFinal ==
    lv.peer = "left" =>
        /\ "h" \notin DOMAIN lv.table
        /\ "h" \notin lv.reported

\* the peer has left, and the interval callback has since reported it as
\* timed out
TimeoutAfterLeave ==
    /\ lv.peer = "left"
    /\ "h" \in lv.reported
    /\ "h" \notin DOMAIN lv.app.participants

\* C40: when a peer that is in the session was reported to the Coordinator
\* as timed out and its heartbeats arrive again, the Coordinator's roster
\* holds the peer again at some later time, unless the peer leaves.
RecoveryAfterFalseTimeout ==
    (lv.falsely /\ lv.peer = "in" /\ "h" \in DOMAIN lv.table)
        ~> ("h" \in DOMAIN lv.app.participants \/ lv.peer = "left")

\* the peer, never gone, was reported as timed out, its heartbeats arrive
\* again and the transport lists it, and the roster does not hold it
BackButNotInRoster ==
    /\ lv.falsely /\ lv.peer = "in" /\ lv.beat = 0
    /\ "h" \in DOMAIN lv.table
    /\ "h" \notin DOMAIN lv.app.participants

=============================================================================
